---- MODULE Spec2Model ----
(***************************************************************************)
(* Incremental order-block detection engine of stock-ob-detector           *)
(* (src/src/stock_ob_detector/detector.py, class OrderBlockDetector).      *)
(*                                                                         *)
(* One detector instance is the state.  Init is the state right after      *)
(* OrderBlockDetector.__init__; ProcessBar is one iteration of the loop    *)
(* in OrderBlockDetector.process, i.e. one complete _process_bar call.     *)
(*                                                                         *)
(* Conventions                                                             *)
(*  - Prices and timestamps are naturals.  Python floats holding small     *)
(*    integers add, subtract and compare exactly; the only division of the *)
(*    code (the mean of the true-range window) is kept as the pair         *)
(*    (total, count) and compared by cross-multiplication.                 *)
(*  - Python None is the integer None == -1 (no price, index or time of    *)
(*    the model is negative).                                              *)
(*  - Python indices are 0-based and are kept 0-based in the state         *)
(*    (Pivot.bar_index); sequences are 1-based, so bars[k] of the code is  *)
(*    s.bars[k + 1] here.                                                  *)
(*  - OrderBlock objects are shared between detected_order_blocks and the  *)
(*    active containers.  detected_order_blocks holds the records; the     *)
(*    containers hold positions (1-based) into detected_order_blocks, so   *)
(*    setting order_block.mitigated through a container is visible in the  *)
(*    result list, as in the code.                                         *)
(*  - Bar.open and Bar.volume are never read by the detector and are left  *)
(*    out of the bar records.                                              *)
(***************************************************************************)
EXTENDS Integers, Sequences, FiniteSets, TLC

VARIABLES
    pc,        \* "ready": constructed; "raised": __init__ raised ValueError
    det,       \* the OrderBlockDetector instance (all self.* attributes)
    returned   \* last value returned by process(), NoResult before any call

vars == <<pc, det, returned>>

(***************************************************************************)
(* Bounds of the exploration                                               *)
(***************************************************************************)
MaxPrice == 3        \* prices range over 0..MaxPrice
MaxBars == 4         \* bars fed to one detector
MaxLen == 2          \* swing_length, internal_length range up to MaxLen
MaxAtrPeriod == 2    \* atr_period ranges over 1..MaxAtrPeriod
MaxCap == 1          \* max_order_blocks ranges over 1..MaxCap

None == -1
NoResult == <<None>>

BULLISH == 1
BEARISH == -1

Min(a, b) == IF a <= b THEN a ELSE b
Max(a, b) == IF a >= b THEN a ELSE b
Abs(x) == IF x < 0 THEN -x ELSE x
Last(seq) == seq[Len(seq)]

RECURSIVE SumSeq(_)
SumSeq(seq) == IF seq = <<>> THEN 0 ELSE Head(seq) + SumSeq(Tail(seq))

\* max(...) / min(...) of a non-empty sequence of numbers
MaxOf(seq) == CHOOSE m \in {seq[i] : i \in DOMAIN seq} :
                  \A i \in DOMAIN seq : seq[i] <= m
MinOf(seq) == CHOOSE m \in {seq[i] : i \in DOMAIN seq} :
                  \A i \in DOMAIN seq : seq[i] >= m

\* the last occurrence where the first is meant
IndexOf_last(seq, value) ==
    (CHOOSE i \in DOMAIN seq :
        /\ seq[i] = value
        /\ \A j \in (i + 1)..Len(seq) : seq[j] # value) - 1

\* list.index(value): 0-based position of the first occurrence
IndexOf(seq, value) ==
    (CHOOSE i \in DOMAIN seq :
        /\ seq[i] = value
        /\ \A j \in 1..(i - 1) : seq[j] # value) - 1

(***************************************************************************)
(* models.py                                                               *)
(***************************************************************************)
Bar(timestamp, high, low, close) ==
    [timestamp |-> timestamp, high |-> high, low |-> low, close |-> close]

Pivot == [current_level |-> None, last_level |-> None, crossed |-> FALSE,
          bar_time |-> None, bar_index |-> None]

Trend == [bias |-> 0]

OrderBlock(high, low, start_time, created_time, pivot_time, bias, internal) ==
    [high |-> high, low |-> low, start_time |-> start_time,
     created_time |-> created_time, pivot_time |-> pivot_time,
     bias |-> bias, internal |-> internal, mitigated |-> FALSE]

(***************************************************************************)
(* OrderBlockDetector.__init__                                             *)
(***************************************************************************)
\* "and" where "or" is meant
InvalidLengths_both(swing_length, internal_length) ==
    swing_length <= 0 /\ internal_length <= 0

\* line 20
InvalidLengths(swing_length, internal_length) ==
    swing_length <= 0 \/ internal_length <= 0

NewDetector(swing_length, internal_length, atr_period, max_order_blocks) ==
    [swing_length |-> swing_length,
     internal_length |-> internal_length,
     atr_period |-> atr_period,
     max_order_blocks |-> max_order_blocks,
     bars |-> <<>>,
     parsed_highs |-> <<>>,
     parsed_lows |-> <<>>,
     atr_window |-> <<>>,
     legs |-> <<>>,
     swing_high |-> Pivot,
     swing_low |-> Pivot,
     internal_high |-> Pivot,
     internal_low |-> Pivot,
     swing_trend |-> Trend,
     internal_trend |-> Trend,
     internal_order_blocks |-> <<>>,
     swing_order_blocks |-> <<>>,
     detected_order_blocks |-> <<>>]

\* The arguments of a constructor call that raised; no instance exists.
NoDetector(swing_length, internal_length, atr_period, max_order_blocks) ==
    [swing_length |-> swing_length,
     internal_length |-> internal_length,
     atr_period |-> atr_period,
     max_order_blocks |-> max_order_blocks]

(***************************************************************************)
(* _append_bar, _true_range, _average                                      *)
(***************************************************************************)
\* prev_bar is None on the first bar
NoBar == Bar(None, None, None, None)

_true_range(bar, prev_bar) ==
    IF prev_bar = NoBar
    THEN bar.high - bar.low
    ELSE LET high_low == bar.high - bar.low
             high_close == Abs(bar.high - prev_bar.close)
             low_close == Abs(bar.low - prev_bar.close)
         IN Max(high_low, Max(high_close, low_close))

\* The mean total / count, kept as the pair; count = 0 is the None that
\* _average returns for an empty window.
_average(values) == [total |-> SumSeq(values), count |-> Len(values)]

\* a window that never evicts
DequeAppend_unbounded(window, value, maxlen) ==
    Append(window, value)

\* deque(maxlen = maxlen).append(value)
DequeAppend(window, value, maxlen) ==
    IF maxlen = 0 THEN window
    ELSE IF Len(window) >= maxlen THEN Append(Tail(window), value)
    ELSE Append(window, value)

\* the threshold made exclusive
high_volatility_strict(bar, atr) ==
    IF atr.count = 0 \/ atr.total = 0
    THEN (bar.high - bar.low) > 2 * (bar.high - bar.low)
    ELSE (bar.high - bar.low) * atr.count > 2 * atr.total

\* (bar.high - bar.low) >= 2 * volatility_threshold, where
\* volatility_threshold = atr if atr else bar.high - bar.low
\* (atr is falsy when it is None or 0.0).
high_volatility(bar, atr) ==
    IF atr.count = 0 \/ atr.total = 0
    THEN (bar.high - bar.low) >= 2 * (bar.high - bar.low)
    ELSE (bar.high - bar.low) * atr.count >= 2 * atr.total

_append_bar(s, bar) ==
    LET prev_bar == IF s.bars = <<>> THEN NoBar ELSE Last(s.bars)
        tr == _true_range(bar, prev_bar)
        window == DequeAppend(s.atr_window, tr, s.atr_period)
        atr == _average(window)
        hv == high_volatility(bar, atr)
        parsed_high == IF hv THEN bar.low ELSE bar.high
        parsed_low == IF hv THEN bar.high ELSE bar.low
    IN [s EXCEPT !.bars = Append(@, bar),
                 !.atr_window = window,
                 !.parsed_highs = Append(@, parsed_high),
                 !.parsed_lows = Append(@, parsed_low)]

(***************************************************************************)
(* _update_structure, _set_pivot                                           *)
(***************************************************************************)
\* the initial leg taken as 1 (bullish)
LegsGet_initially_bullish(legs, size) ==
    IF size \in DOMAIN legs THEN legs[size] ELSE 1

\* self.legs.get(size, 0); legs is a dict keyed by the structure LENGTH
LegsGet(legs, size) == IF size \in DOMAIN legs THEN legs[size] ELSE 0

\* self.legs[size] = leg
LegsSet(legs, size, leg) ==
    [k \in (DOMAIN legs) \cup {size} |-> IF k = size THEN leg ELSE legs[k]]

\* the segment of the pivot made to start one bar before its anchor
_set_pivot_index_before_anchor(pivot, level, timestamp, index) ==
    [current_level |-> level,
     last_level |-> pivot.current_level,
     crossed |-> FALSE,
     bar_time |-> timestamp,
     bar_index |-> Max(0, index - 1)]

\* line 144 left out: bar_index keeps its old value
_set_pivot_keeps_index(pivot, level, timestamp, index) ==
    [current_level |-> level,
     last_level |-> pivot.current_level,
     crossed |-> FALSE,
     bar_time |-> timestamp,
     bar_index |-> pivot.bar_index]

\* line 140 left out: last_level is not taken from current_level
_set_pivot_forgets_last(pivot, level, timestamp, index) ==
    [current_level |-> level,
     last_level |-> pivot.last_level,
     crossed |-> FALSE,
     bar_time |-> timestamp,
     bar_index |-> index]

\* line 142 left out: crossed survives the new level
_set_pivot_keeps_crossed(pivot, level, timestamp, index) ==
    [current_level |-> level,
     last_level |-> pivot.current_level,
     crossed |-> pivot.crossed,
     bar_time |-> timestamp,
     bar_index |-> index]

_set_pivot(pivot, level, timestamp, index) ==
    [current_level |-> level,
     last_level |-> pivot.current_level,
     crossed |-> FALSE,
     bar_time |-> timestamp,
     bar_index |-> index]

\* the two tests in the other order
NextLeg_bullish_first(prev_leg, anchor_bar, recent_high, recent_low) ==
    IF anchor_bar.low < recent_low THEN 1
    ELSE IF anchor_bar.high > recent_high THEN 0
    ELSE prev_leg

\* the anchor's low compared with the highest high of the lookback
NextLeg_low_against_high(prev_leg, anchor_bar, recent_high, recent_low) ==
    IF anchor_bar.high > recent_high THEN 0
    ELSE IF anchor_bar.low < recent_high THEN 1
    ELSE prev_leg

\* lines 121-124: the bearish test comes first
NextLeg(prev_leg, anchor_bar, recent_high, recent_low) ==
    IF anchor_bar.high > recent_high THEN 0
    ELSE IF anchor_bar.low < recent_low THEN 1
    ELSE prev_leg

PivotHighField(internal) == IF internal THEN "internal_high" ELSE "swing_high"
PivotLowField(internal) == IF internal THEN "internal_low" ELSE "swing_low"
TrendField(internal) == IF internal THEN "internal_trend" ELSE "swing_trend"
ContainerField(internal) ==
    IF internal THEN "internal_order_blocks" ELSE "swing_order_blocks"

_update_structure(s, size, internal) ==
    IF Len(s.bars) <= size THEN s
    ELSE
    LET prev_leg == LegsGet(s.legs, size)
        anchor_index == Len(s.bars) - 1 - size
    IN
    IF anchor_index < 0 THEN s
    ELSE
    LET anchor_bar == s.bars[anchor_index + 1]
        subsequent == SubSeq(s.bars, anchor_index + 2, Len(s.bars))
    IN
    IF subsequent = <<>> THEN s
    ELSE
    LET recent_high == MaxOf([i \in DOMAIN subsequent |-> subsequent[i].high])
        recent_low == MinOf([i \in DOMAIN subsequent |-> subsequent[i].low])
        current_leg == NextLeg(prev_leg, anchor_bar, recent_high, recent_low)
        change == current_leg - prev_leg
        s1 == [s EXCEPT !.legs = LegsSet(@, size, current_leg)]
    IN
    IF change = 0 THEN s1
    ELSE IF change = 1
    THEN [s1 EXCEPT ![PivotLowField(internal)] =
             _set_pivot(@, anchor_bar.low, anchor_bar.timestamp, anchor_index)]
    ELSE IF change = -1
    THEN [s1 EXCEPT ![PivotHighField(internal)] =
             _set_pivot(@, anchor_bar.high, anchor_bar.timestamp, anchor_index)]
    ELSE s1

(***************************************************************************)
(* _store_order_block                                                      *)
(***************************************************************************)
\* container.append(order_block) where insert(0, order_block) is meant
InsertCapped_appended(container, order_block, max_order_blocks) ==
    LET inserted == container \o <<order_block>>
    IN SubSeq(inserted, 1, Min(Len(inserted), max_order_blocks))

\* lines 227-228: container.insert(0, order_block);
\* del container[self.max_order_blocks:]
InsertCapped(container, order_block, max_order_blocks) ==
    LET inserted == <<order_block>> \o container
    IN SubSeq(inserted, 1, Min(Len(inserted), max_order_blocks))

\* An index slip: bars[0] where bars[-1] is meant
CreatedTime_first_bar(s) == Head(s.bars).timestamp

\* line 210: created_time = self.bars[-1].timestamp
CreatedTime(s) == Last(s.bars).timestamp

\* detected_order_blocks.insert(0, order_block) where append is meant
_store_order_block_prepends_result(s, pivot, internal, bias) ==
    IF pivot.bar_index = None THEN s
    ELSE
    LET start_index == pivot.bar_index
        end_index == Len(s.bars)
    IN
    IF end_index <= start_index THEN s
    ELSE
    LET segment_highs == SubSeq(s.parsed_highs, start_index + 1, end_index)
        segment_lows == SubSeq(s.parsed_lows, start_index + 1, end_index)
        reference_values == IF bias = BULLISH THEN segment_lows
                            ELSE segment_highs
    IN
    IF reference_values = <<>> THEN s
    ELSE
    LET offset == IF bias = BULLISH
                  THEN IndexOf(reference_values, MinOf(reference_values))
                  ELSE IndexOf(reference_values, MaxOf(reference_values))
        order_index == start_index + offset
        order_high == s.parsed_highs[order_index + 1]
        order_low == s.parsed_lows[order_index + 1]
        order_time == s.bars[order_index + 1].timestamp
        \* pivot.bar_time or order_time (a datetime is always truthy)
        pivot_time == IF pivot.bar_time = None THEN order_time
                      ELSE pivot.bar_time
        created_time == CreatedTime(s)
        order_block == OrderBlock(order_high, order_low, order_time,
                                  created_time, pivot_time, bias, internal)
        detected == <<order_block>> \o s.detected_order_blocks
        \* the blocks the containers hold are one position further
        moved(container) == [i \in DOMAIN container |-> container[i] + 1]
        capped == InsertCapped(moved(s[ContainerField(internal)]), 1,
                               s.max_order_blocks)
    IN [s EXCEPT !.detected_order_blocks = detected,
                 !.internal_order_blocks = moved(@),
                 !.swing_order_blocks = moved(@),
                 ![ContainerField(internal)] = capped]

\* a full container rejects the new block: nothing is stored
_store_order_block_full_rejects(s, pivot, internal, bias) ==
    IF pivot.bar_index = None THEN s
    ELSE IF Len(s[ContainerField(internal)]) >= s.max_order_blocks THEN s
    ELSE
    LET start_index == pivot.bar_index
        end_index == Len(s.bars)
    IN
    IF end_index <= start_index THEN s
    ELSE
    LET segment_highs == SubSeq(s.parsed_highs, start_index + 1, end_index)
        segment_lows == SubSeq(s.parsed_lows, start_index + 1, end_index)
        reference_values == IF bias = BULLISH THEN segment_lows
                            ELSE segment_highs
    IN
    IF reference_values = <<>> THEN s
    ELSE
    LET offset == IF bias = BULLISH
                  THEN IndexOf(reference_values, MinOf(reference_values))
                  ELSE IndexOf(reference_values, MaxOf(reference_values))
        order_index == start_index + offset
        order_high == s.parsed_highs[order_index + 1]
        order_low == s.parsed_lows[order_index + 1]
        order_time == s.bars[order_index + 1].timestamp
        \* pivot.bar_time or order_time (a datetime is always truthy)
        pivot_time == IF pivot.bar_time = None THEN order_time
                      ELSE pivot.bar_time
        created_time == CreatedTime(s)
        order_block == OrderBlock(order_high, order_low, order_time,
                                  created_time, pivot_time, bias, internal)
        detected == Append(s.detected_order_blocks, order_block)
        capped == InsertCapped(s[ContainerField(internal)], Len(detected),
                               s.max_order_blocks)
    IN [s EXCEPT !.detected_order_blocks = detected,
                 ![ContainerField(internal)] = capped]

_store_order_block(s, pivot, internal, bias) ==
    IF pivot.bar_index = None THEN s
    ELSE
    LET start_index == pivot.bar_index
        end_index == Len(s.bars)
    IN
    IF end_index <= start_index THEN s
    ELSE
    LET segment_highs == SubSeq(s.parsed_highs, start_index + 1, end_index)
        segment_lows == SubSeq(s.parsed_lows, start_index + 1, end_index)
        reference_values == IF bias = BULLISH THEN segment_lows
                            ELSE segment_highs
    IN
    IF reference_values = <<>> THEN s
    ELSE
    LET offset == IF bias = BULLISH
                  THEN IndexOf(reference_values, MinOf(reference_values))
                  ELSE IndexOf(reference_values, MaxOf(reference_values))
        order_index == start_index + offset
        order_high == s.parsed_highs[order_index + 1]
        order_low == s.parsed_lows[order_index + 1]
        order_time == s.bars[order_index + 1].timestamp
        \* pivot.bar_time or order_time (a datetime is always truthy)
        pivot_time == IF pivot.bar_time = None THEN order_time
                      ELSE pivot.bar_time
        created_time == CreatedTime(s)
        order_block == OrderBlock(order_high, order_low, order_time,
                                  created_time, pivot_time, bias, internal)
        detected == Append(s.detected_order_blocks, order_block)
        capped == InsertCapped(s[ContainerField(internal)], Len(detected),
                               s.max_order_blocks)
    IN [s EXCEPT !.detected_order_blocks = detected,
                 ![ContainerField(internal)] = capped]

(***************************************************************************)
(* _display_structure                                                      *)
(***************************************************************************)
\* lines 157-162
\* the bullish test made on the bar's high instead of its close
BullishBreak_by_high(s, internal) ==
    LET pivot_high == s[PivotHighField(internal)]
        previous_close == s.bars[Len(s.bars) - 1].close
        current_high == Last(s.bars).high
    IN /\ pivot_high.current_level # None
       /\ ~pivot_high.crossed
       /\ previous_close <= pivot_high.current_level
       /\ current_high > pivot_high.current_level

BullishBreak(s, internal) ==
    LET pivot_high == s[PivotHighField(internal)]
        previous_close == s.bars[Len(s.bars) - 1].close
        current_close == Last(s.bars).close
    IN /\ pivot_high.current_level # None
       /\ ~pivot_high.crossed
       /\ previous_close <= pivot_high.current_level
       /\ current_close > pivot_high.current_level

\* the previous close required strictly above the level
BearishBreak_strict_previous(s, internal) ==
    LET pivot_low == s[PivotLowField(internal)]
        previous_close == s.bars[Len(s.bars) - 1].close
        current_close == Last(s.bars).close
    IN /\ pivot_low.current_level # None
       /\ ~pivot_low.crossed
       /\ previous_close > pivot_low.current_level
       /\ current_close < pivot_low.current_level

\* the bearish test made on the bar's low instead of its close
BearishBreak_by_low(s, internal) ==
    LET pivot_low == s[PivotLowField(internal)]
        previous_close == s.bars[Len(s.bars) - 1].close
        current_low == Last(s.bars).low
    IN /\ pivot_low.current_level # None
       /\ ~pivot_low.crossed
       /\ previous_close >= pivot_low.current_level
       /\ current_low < pivot_low.current_level

\* the bullish comparison pasted into the bearish test
BearishBreak_pasted(s, internal) ==
    LET pivot_low == s[PivotLowField(internal)]
        previous_close == s.bars[Len(s.bars) - 1].close
        current_close == Last(s.bars).close
    IN /\ pivot_low.current_level # None
       /\ ~pivot_low.crossed
       /\ previous_close <= pivot_low.current_level
       /\ current_close > pivot_low.current_level

BearishBreak(s, internal) ==
    LET pivot_low == s[PivotLowField(internal)]
        previous_close == s.bars[Len(s.bars) - 1].close
        current_close == Last(s.bars).close
    IN /\ pivot_low.current_level # None
       /\ ~pivot_low.crossed
       /\ previous_close >= pivot_low.current_level
       /\ current_close < pivot_low.current_level

\* the calls of _store_order_block pasted with internal = False
_display_structure_stores_as_swing(s, internal) ==
    IF Len(s.bars) < 2 THEN s
    ELSE
    LET s1 == IF BullishBreak(s, internal)
              THEN LET t == [s EXCEPT ![TrendField(internal)].bias = BULLISH,
                                      ![PivotHighField(internal)].crossed = TRUE]
                   IN _store_order_block(t, t[PivotHighField(internal)],
                                         FALSE, BULLISH)
              ELSE s
    IN IF BearishBreak(s1, internal)
       THEN LET t == [s1 EXCEPT ![TrendField(internal)].bias = BEARISH,
                                ![PivotLowField(internal)].crossed = TRUE]
            IN _store_order_block(t, t[PivotLowField(internal)],
                                  FALSE, BEARISH)
       ELSE s1

_display_structure(s, internal) ==
    IF Len(s.bars) < 2 THEN s
    ELSE
    LET s1 == IF BullishBreak(s, internal)
              THEN LET t == [s EXCEPT ![TrendField(internal)].bias = BULLISH,
                                      ![PivotHighField(internal)].crossed = TRUE]
                   IN _store_order_block(t, t[PivotHighField(internal)],
                                         internal, BULLISH)
              ELSE s
    IN IF BearishBreak(s1, internal)
       THEN LET t == [s1 EXCEPT ![TrendField(internal)].bias = BEARISH,
                                ![PivotLowField(internal)].crossed = TRUE]
            IN _store_order_block(t, t[PivotLowField(internal)],
                                  internal, BEARISH)
       ELSE s1

(***************************************************************************)
(* _delete_order_blocks                                                    *)
(***************************************************************************)
\* the bearish comparison made inclusive
Mitigates_bearish_inclusive(current_bar, order_block) ==
    IF order_block.bias = BULLISH
    THEN current_bar.low < order_block.low
    ELSE current_bar.high >= order_block.high

\* the test made on the bar's close instead of its low / high
Mitigates_by_close(current_bar, order_block) ==
    IF order_block.bias = BULLISH
    THEN current_bar.close < order_block.low
    ELSE current_bar.close > order_block.high

\* the comparisons made inclusive
Mitigates_inclusive(current_bar, order_block) ==
    IF order_block.bias = BULLISH
    THEN current_bar.low <= order_block.low
    ELSE current_bar.high >= order_block.high

\* lines 240-243
Mitigates(current_bar, order_block) ==
    IF order_block.bias = BULLISH
    THEN current_bar.low < order_block.low
    ELSE current_bar.high > order_block.high

\* The mitigated blocks are flagged but the container is not rewritten
\* (line 248 left out)
_delete_order_blocks_keeps_container(s, internal) ==
    LET container == s[ContainerField(internal)]
    IN
    IF container = <<>> THEN s
    ELSE
    LET current_bar == Last(s.bars)
        hits == {container[i] : i \in {j \in DOMAIN container :
                    Mitigates(current_bar, s.detected_order_blocks[container[j]])}}
    IN [s EXCEPT !.detected_order_blocks =
                     [id \in DOMAIN @ |->
                         IF id \in hits THEN [@[id] EXCEPT !.mitigated = TRUE]
                         ELSE @[id]]]

\* The loop runs over the whole result list and assigns the flag of every
\* block of the scope (mitigated = ... where "if mitigated: ... = True" is meant)
_delete_order_blocks_reassigns_flags(s, internal) ==
    LET container == s[ContainerField(internal)]
    IN
    IF container = <<>> THEN s
    ELSE
    LET current_bar == Last(s.bars)
        hit(id) == Mitigates(current_bar, s.detected_order_blocks[id])
        updated == SelectSeq(container, LAMBDA id : ~hit(id))
    IN [s EXCEPT !.detected_order_blocks =
                     [id \in DOMAIN @ |->
                         IF @[id].internal = internal
                         THEN [@[id] EXCEPT !.mitigated = hit(id)]
                         ELSE @[id]],
                 ![ContainerField(internal)] = updated]

\* The loop runs over the blocks of the scope in the result list instead of
\* the container
_delete_order_blocks_scans_results(s, internal) ==
    LET container == s[ContainerField(internal)]
    IN
    IF container = <<>> THEN s
    ELSE
    LET current_bar == Last(s.bars)
        hit(id) == Mitigates(current_bar, s.detected_order_blocks[id])
        updated == SelectSeq(container, LAMBDA id : ~hit(id))
        hits == {id \in DOMAIN s.detected_order_blocks :
                    s.detected_order_blocks[id].internal = internal /\ hit(id)}
    IN [s EXCEPT !.detected_order_blocks =
                     [id \in DOMAIN @ |->
                         IF id \in hits THEN [@[id] EXCEPT !.mitigated = TRUE]
                         ELSE @[id]],
                 ![ContainerField(internal)] = updated]

_delete_order_blocks(s, internal) ==
    LET container == s[ContainerField(internal)]
    IN
    IF container = <<>> THEN s
    ELSE
    LET current_bar == Last(s.bars)
        hit(id) == Mitigates(current_bar, s.detected_order_blocks[id])
        updated == SelectSeq(container, LAMBDA id : ~hit(id))
        hits == {container[i] : i \in {j \in DOMAIN container : hit(container[j])}}
    IN [s EXCEPT !.detected_order_blocks =
                     [id \in DOMAIN @ |->
                         IF id \in hits THEN [@[id] EXCEPT !.mitigated = TRUE]
                         ELSE @[id]],
                 ![ContainerField(internal)] = updated]

(***************************************************************************)
(* _process_bar, process                                                   *)
(***************************************************************************)
\* the lookbacks passed one too short
_process_bar_short_lookback(s, bar) ==
    LET s1 == _append_bar(s, bar)
        s2 == _update_structure(s1, s1.swing_length - 1, FALSE)
        s3 == _update_structure(s2, s2.internal_length - 1, TRUE)
        s4 == _display_structure(s3, TRUE)
        s5 == _display_structure(s4, FALSE)
        s6 == _delete_order_blocks(s5, TRUE)
    IN _delete_order_blocks(s6, FALSE)

_process_bar(s, bar) ==
    LET s1 == _append_bar(s, bar)
        s2 == _update_structure(s1, s1.swing_length, FALSE)
        s3 == _update_structure(s2, s2.internal_length, TRUE)
        s4 == _display_structure(s3, TRUE)
        s5 == _display_structure(s4, FALSE)
        s6 == _delete_order_blocks(s5, TRUE)
    IN _delete_order_blocks(s6, FALSE)

\* lines 50-51: for bar in bars: self._process_bar(bar)
RECURSIVE ProcessAll(_, _)
ProcessAll(s, bars) ==
    IF bars = <<>> THEN s
    ELSE ProcessAll(_process_bar(s, Head(bars)), Tail(bars))

\* every call starts from a detector without history
process_restarts(s, bars) ==
    ProcessAll(NewDetector(s.swing_length, s.internal_length, s.atr_period,
                           s.max_order_blocks), bars)

\* The detector after process(bars); the call returns a copy of its
\* detected_order_blocks (line 52)
process(s, bars) == ProcessAll(s, bars)

(***************************************************************************)
(* Inputs                                                                  *)
(***************************************************************************)
\* OHLC observations with prices in 0..max_price: low <= close <= high
BarShapes(max_price) ==
    {hlc \in (0..max_price) \X (0..max_price) \X (0..max_price) :
        hlc[2] <= hlc[3] /\ hlc[3] <= hlc[1]}

\* Timestamp of the next bar of a feed that moves by one of the given steps
\* (the first bar has timestamp 1)
NextTimestamps(s, steps) ==
    IF s.bars = <<>> THEN {1}
    ELSE {t \in {Last(s.bars).timestamp + d : d \in steps} : t >= 0}

(***************************************************************************)
(* State machine                                                           *)
(***************************************************************************)
\* OrderBlockDetector(swing_length, internal_length, atr_period,
\*                    max_order_blocks)
Construct(swing_length, internal_length, atr_period, max_order_blocks) ==
    /\ returned = NoResult
    /\ IF InvalidLengths(swing_length, internal_length)
       THEN /\ pc = "raised"
            /\ det = NoDetector(swing_length, internal_length, atr_period,
                                max_order_blocks)
       ELSE /\ pc = "ready"
            /\ det = NewDetector(swing_length, internal_length, atr_period,
                                 max_order_blocks)

\* process([bar]): one iteration of the loop, then the copy of the result list
ProcessBar(shapes, steps, max_bars) ==
    /\ pc = "ready"
    /\ Len(det.bars) < max_bars
    /\ \E hlc \in shapes, timestamp \in NextTimestamps(det, steps) :
          /\ det' = _process_bar(det, Bar(timestamp, hlc[1], hlc[2], hlc[3]))
          /\ returned' = det'.detected_order_blocks
    /\ UNCHANGED pc

\* process([]): no bar, the copy of the result list is returned
ProcessNothing ==
    /\ pc = "ready"
    /\ returned' = det.detected_order_blocks
    /\ UNCHANGED <<pc, det>>

(***************************************************************************)
(* Spec: any configuration within the bounds (the non-positive lengths -1  *)
(* and 0 included), a feed of OHLC bars with strictly increasing           *)
(* timestamps.                                                             *)
(***************************************************************************)
Init ==
    \E swing_length \in -1..MaxLen, internal_length \in -1..MaxLen,
       atr_period \in 1..MaxAtrPeriod, max_order_blocks \in 1..MaxCap :
        Construct(swing_length, internal_length, atr_period, max_order_blocks)

Next ==
    \/ ProcessBar(BarShapes(MaxPrice), {1}, MaxBars)
    \/ ProcessNothing

Spec == Init /\ [][Next]_vars

(***************************************************************************)
(* SpecSpike: a feed of bars that close on their low, over a wider price   *)
(* range and a longer ATR window, so that a quiet stretch followed by one  *)
(* wide bar (a high-volatility bar) is reached.                            *)
(***************************************************************************)
SpikeMaxPrice == 4
SpikeMaxBars == 4
SpikeMaxAtrPeriod == 3

CloseOnLow(max_price) == {hlc \in BarShapes(max_price) : hlc[3] = hlc[2]}

SpikeInit ==
    \E swing_length \in 1..MaxLen, internal_length \in 1..MaxLen,
       atr_period \in 1..SpikeMaxAtrPeriod, max_order_blocks \in 1..MaxCap :
        Construct(swing_length, internal_length, atr_period, max_order_blocks)

SpikeNext ==
    \/ ProcessBar(CloseOnLow(SpikeMaxPrice), {1}, SpikeMaxBars)
    \/ ProcessNothing

SpecSpike == SpikeInit /\ [][SpikeNext]_vars

(***************************************************************************)
(* SpecLine: a close-only feed (high = low = close on every bar), which    *)
(* lets longer runs be explored: breakouts of both directions, mitigation  *)
(* and bars after it, several blocks in one container.                     *)
(***************************************************************************)
LineMaxPrice == 3
LineMaxBars == 6
LineMaxCap == 2

CloseOnly(max_price) == {hlc \in BarShapes(max_price) : hlc[1] = hlc[2]}

LineInit ==
    \E swing_length \in 1..MaxLen, internal_length \in 1..MaxLen,
       atr_period \in 1..MaxAtrPeriod, max_order_blocks \in 1..LineMaxCap :
        Construct(swing_length, internal_length, atr_period, max_order_blocks)

LineNext ==
    \/ ProcessBar(CloseOnly(LineMaxPrice), {1}, LineMaxBars)
    \/ ProcessNothing

SpecLine == LineInit /\ [][LineNext]_vars

(***************************************************************************)
(* SpecMisuse: the caller breaks the input contract; the timestamp of a    *)
(* bar may repeat the previous one or go back.                             *)
(***************************************************************************)
MisuseMaxPrice == 2
MisuseMaxBars == 3

MisuseNext ==
    \/ ProcessBar(BarShapes(MisuseMaxPrice), {-1, 0, 1}, MisuseMaxBars)
    \/ ProcessNothing

SpecMisuse == Init /\ [][MisuseNext]_vars

(***************************************************************************)
(* SpecRising: every bar's high, low and close are strictly greater than   *)
(* the previous bar's.                                                     *)
(***************************************************************************)
RisingMaxPrice == 4
RisingMaxBars == 4

RisingShapes(s, max_price) ==
    {hlc \in BarShapes(max_price) :
        \/ s.bars = <<>>
        \/ /\ hlc[1] > Last(s.bars).high
           /\ hlc[2] > Last(s.bars).low
           /\ hlc[3] > Last(s.bars).close}

RisingNext ==
    \/ ProcessBar(RisingShapes(det, RisingMaxPrice), {1}, RisingMaxBars)
    \/ ProcessNothing

SpecRising == Init /\ [][RisingNext]_vars

(***************************************************************************)
(* Vocabulary of the properties                                            *)
(***************************************************************************)
Ready == pc = "ready"
Blocks == det.detected_order_blocks
Active(s) == {s.internal_order_blocks[i] : i \in DOMAIN s.internal_order_blocks}
             \cup {s.swing_order_blocks[i] : i \in DOMAIN s.swing_order_blocks}
StrictlyIncreasingTimestamps(bars) ==
    \A i \in 1..(Len(bars) - 1) : bars[i].timestamp < bars[i + 1].timestamp
BarFed == Ready /\ det'.bars # det.bars

(***************************************************************************)
(* C1: every emitted OrderBlock has high >= low, also when its origin bar  *)
(* was classified high-volatility.                                         *)
(***************************************************************************)
C1_HighAtLeastLow ==
    Ready => \A i \in DOMAIN Blocks : Blocks[i].high >= Blocks[i].low

(***************************************************************************)
(* C2: mitigation is monotonic.  Across every step, a block flagged        *)
(* mitigated stays flagged and is in no active container, and every block  *)
(* in an active container is not flagged.                                  *)
(***************************************************************************)
C2_Step ==
    Ready =>
        /\ \A i \in DOMAIN Blocks :
               Blocks[i].mitigated =>
                   /\ i \in DOMAIN det'.detected_order_blocks
                   /\ det'.detected_order_blocks[i].mitigated
                   /\ i \notin Active(det')
        /\ \A i \in Active(det') : ~det'.detected_order_blocks[i].mitigated

\* C2: every step keeps mitigated blocks mitigated and out of the active
\* containers, and leaves only unmitigated blocks in them.
C2_MonotonicMitigation == [][C2_Step]_vars

\* a block was flagged mitigated by a bar later than its breakout bar, and
\* the feed goes on
C2_Witness ==
    /\ Ready
    /\ Len(det.bars) < LineMaxBars
    /\ \E i \in DOMAIN Blocks :
          /\ Blocks[i].mitigated
          /\ Blocks[i].created_time < Last(det.bars).timestamp

(***************************************************************************)
(* C3: with strictly increasing timestamps, every emitted OrderBlock has   *)
(* start_time <= created_time and pivot_time <= created_time.              *)
(***************************************************************************)
C3_TimesBeforeCreation ==
    (Ready /\ StrictlyIncreasingTimestamps(det.bars)) =>
        \A i \in DOMAIN Blocks :
            /\ Blocks[i].start_time <= Blocks[i].created_time
            /\ Blocks[i].pivot_time <= Blocks[i].created_time

\* a block whose origin bar lies strictly between its pivot and its breakout
C3_Witness ==
    /\ Ready
    /\ StrictlyIncreasingTimestamps(det.bars)
    /\ \E i \in DOMAIN Blocks :
          /\ Blocks[i].pivot_time < Blocks[i].start_time
          /\ Blocks[i].start_time < Blocks[i].created_time

(***************************************************************************)
(* C5: a bar whose timestamp is not strictly greater than the previous     *)
(* bar's is rejected (the detector fails fast) instead of being processed: *)
(* the bars a detector has processed have strictly increasing timestamps.  *)
(***************************************************************************)
C5_FailsFastOnMisorderedBar ==
    Ready => StrictlyIncreasingTimestamps(det.bars)

(***************************************************************************)
(* C6: construction with swing_length <= 0 or internal_length <= 0 raises, *)
(* and only then; no detector in such a configuration processes a bar.     *)
(***************************************************************************)
C6_InvalidLengthsRejected ==
    /\ (det.swing_length <= 0 \/ det.internal_length <= 0) <=> pc = "raised"
    /\ pc = "raised" => "bars" \notin DOMAIN det

\* a constructor call with one length zero and the other positive has raised
C6_Witness ==
    /\ pc = "raised"
    /\ det.swing_length = 0
    /\ det.internal_length > 0

(***************************************************************************)
(* C7: with fewer bars than min(swing_length, internal_length), process    *)
(* returns an empty result without error and no pivot is set; a structure  *)
(* of length N sets no pivot while at most N bars have been ingested.      *)
(***************************************************************************)
C7_TooFewBars ==
    Ready =>
        /\ Len(det.bars) < Min(det.swing_length, det.internal_length) =>
               /\ Blocks = <<>>
               /\ returned \in {NoResult, <<>>}
               /\ det.swing_high = Pivot /\ det.swing_low = Pivot
               /\ det.internal_high = Pivot /\ det.internal_low = Pivot
        /\ Len(det.bars) <= det.swing_length =>
               det.swing_high = Pivot /\ det.swing_low = Pivot
        /\ Len(det.bars) <= det.internal_length =>
               det.internal_high = Pivot /\ det.internal_low = Pivot

\* process has returned the empty list for one bar fed to lengths of 2
C7_Witness ==
    /\ Ready
    /\ Len(det.bars) = 1
    /\ det.swing_length = 2 /\ det.internal_length = 2
    /\ returned = <<>>

(***************************************************************************)
(* C8: a bar is high-volatility exactly when high - low >= 2 x the mean of *)
(* the true ranges of the last min(i + 1, atr_period) bars (itself         *)
(* included), the threshold inclusive; its parsed extremes are swapped     *)
(* exactly then.                                                           *)
(***************************************************************************)
C8_TrueRangeAt(i) ==
    IF i = 1 THEN det.bars[1].high - det.bars[1].low
    ELSE Max(det.bars[i].high - det.bars[i].low,
             Max(Abs(det.bars[i].high - det.bars[i - 1].close),
                 Abs(det.bars[i].low - det.bars[i - 1].close)))

C8_WindowOf(i) == (Max(1, i - det.atr_period + 1))..i

RECURSIVE C8_SumTrueRanges(_)
C8_SumTrueRanges(js) ==
    IF js = {} THEN 0
    ELSE LET j == CHOOSE x \in js : TRUE
         IN C8_TrueRangeAt(j) + C8_SumTrueRanges(js \ {j})

\* (high - low) >= 2 * sum / count, without the division
C8_HighVolatilityAt(i) ==
    (det.bars[i].high - det.bars[i].low) * Cardinality(C8_WindowOf(i))
        >= 2 * C8_SumTrueRanges(C8_WindowOf(i))

\* C8: the parsed extremes of every bar are swapped exactly when its range
\* is at least twice the estimate (inclusive).
C8_ParsedExtremes ==
    Ready =>
        \A i \in DOMAIN det.bars :
            IF C8_HighVolatilityAt(i)
            THEN /\ det.parsed_highs[i] = det.bars[i].low
                 /\ det.parsed_lows[i] = det.bars[i].high
            ELSE /\ det.parsed_highs[i] = det.bars[i].high
                 /\ det.parsed_lows[i] = det.bars[i].low

\* a bar of positive range exactly equal to twice the estimate, swapped
C8_Witness ==
    /\ Ready
    /\ \E i \in DOMAIN det.bars :
          /\ det.bars[i].high > det.bars[i].low
          /\ (det.bars[i].high - det.bars[i].low) * Cardinality(C8_WindowOf(i))
                = 2 * C8_SumTrueRanges(C8_WindowOf(i))
          /\ det.parsed_highs[i] = det.bars[i].low
          /\ det.parsed_lows[i] = det.bars[i].high

(***************************************************************************)
(* C9: tie-break.  On a bar where the anchor bar of a structure has a high *)
(* above the maximum high of the N following bars and a low below their    *)
(* minimum low, the leg of that structure is 0 afterwards and its low      *)
(* pivot is not updated.                                                   *)
(***************************************************************************)
C9_AnchorExceedsBothWays(s, size) ==
    /\ Len(s.bars) > size
    /\ LET anchor == s.bars[Len(s.bars) - size]
           following == (Len(s.bars) - size + 1)..Len(s.bars)
       IN /\ \A j \in following : anchor.high > s.bars[j].high
          /\ \A j \in following : anchor.low < s.bars[j].low

\* what _set_pivot assigns, crossed apart (a breakout may set crossed on the
\* same bar without the pivot being updated)
C9_Assigned(pivot) ==
    <<pivot.current_level, pivot.last_level, pivot.bar_time, pivot.bar_index>>

C9_Step ==
    BarFed =>
        /\ C9_AnchorExceedsBothWays(det', det'.swing_length) =>
               /\ det'.legs[det'.swing_length] = 0
               /\ C9_Assigned(det'.swing_low) = C9_Assigned(det.swing_low)
        /\ C9_AnchorExceedsBothWays(det', det'.internal_length) =>
               /\ det'.legs[det'.internal_length] = 0
               /\ C9_Assigned(det'.internal_low) = C9_Assigned(det.internal_low)

\* C9: on a bar where the anchor exceeds both ways, the leg becomes 0 and the
\* low pivot is not updated.
C9_TieBreakBearish == [][C9_Step]_vars

\* the tie happened on the last bar and the high pivot took the anchor
C9_Witness ==
    /\ Ready
    /\ \E internal \in BOOLEAN :
          LET size == IF internal THEN det.internal_length ELSE det.swing_length
          IN /\ C9_AnchorExceedsBothWays(det, size)
             /\ det[PivotHighField(internal)].bar_index = Len(det.bars) - 1 - size
             /\ det[PivotLowField(internal)].current_level # None

(***************************************************************************)
(* C10: on a feed whose highs, lows and closes all rise strictly from bar  *)
(* to bar, no BEARISH order block is ever emitted.                         *)
(***************************************************************************)
C10_NoBearishBlockWhenRising ==
    Ready => \A i \in DOMAIN Blocks : Blocks[i].bias # BEARISH

\* a low pivot is established and the feed has kept rising above it
C10_Witness ==
    /\ Ready
    /\ Len(det.bars) >= 3
    /\ det.swing_low.current_level # None
    /\ det.internal_low.current_level # None
    /\ Last(det.bars).close > det.swing_low.current_level

(***************************************************************************)
(* C11: the active containers are capped and most-recent-first             *)
(***************************************************************************)
Containers(s) == <<s.internal_order_blocks, s.swing_order_blocks>>

\* A block that is not mitigated and is in no container was dropped by the cap
C11_DroppedByCap(id) ==
    /\ ~Blocks[id].mitigated
    /\ id \notin Active(det)

C11_MostRecentFirst(container) ==
    \A i, j \in DOMAIN container :
        i < j => /\ container[i] > container[j]
                 /\ Blocks[container[i]].created_time
                        >= Blocks[container[j]].created_time

\* C11: after every bar each active container holds at most max_order_blocks
\* blocks, the most recently created first (a later position in
\* detected_order_blocks is a later creation), and a block that the cap
\* dropped was created before every block its container still holds.
C11_CappedMostRecentFirst ==
    Ready =>
        \A c \in 1..2 :
            LET container == Containers(det)[c]
            IN /\ Len(container) <= det.max_order_blocks
               /\ C11_MostRecentFirst(container)
               /\ \A id \in DOMAIN Blocks :
                     (C11_DroppedByCap(id) /\ Blocks[id].internal = (c = 1))
                         => \A k \in DOMAIN container : container[k] > id

\* A block has been dropped by the cap while its container holds a newer one
C11_Witness ==
    /\ Ready
    /\ \E c \in 1..2, id \in DOMAIN Blocks :
          /\ C11_DroppedByCap(id)
          /\ Blocks[id].internal = (c = 1)
          /\ Len(Containers(det)[c]) = det.max_order_blocks

(***************************************************************************)
(* C12: detected_order_blocks is append-only                               *)
(***************************************************************************)
C12_SameButMitigated(before, after) ==
    /\ [after EXCEPT !.mitigated = before.mitigated] = before
    /\ before.mitigated => after.mitigated

C12_Step ==
    Ready =>
        /\ Len(Blocks') >= Len(Blocks)
        /\ \A id \in DOMAIN Blocks : C12_SameButMitigated(Blocks[id], Blocks'[id])

\* C12: every step leaves detected_order_blocks equal to what it was,
\* followed by zero or more new blocks; an existing entry keeps every field,
\* except that mitigated may turn from false to true; no entry is removed.
C12_AppendOnly == [][C12_Step]_vars

\* A mitigated block and a block dropped by the cap are both still in the
\* list, and a block was appended after them
C12_Witness ==
    /\ Ready
    /\ \E i, j \in DOMAIN Blocks :
          /\ Blocks[i].mitigated
          /\ C11_DroppedByCap(j)
          /\ Len(Blocks) > i
          /\ Len(Blocks) > j
          /\ Blocks[Len(Blocks)].created_time > Blocks[i].created_time
          /\ Blocks[Len(Blocks)].created_time > Blocks[j].created_time

(***************************************************************************)
(* C13: the result is ordered by created_time                              *)
(***************************************************************************)
C13_OrderedByCreatedTime(blocks) ==
    \A p, q \in DOMAIN blocks :
        p < q => blocks[p].created_time <= blocks[q].created_time

\* C13: the list returned by process is in breakout detection order, which
\* is created_time order: for positions p < q, created_time[p] <=
\* created_time[q].  The same holds of detected_order_blocks after every bar.
C13_ResultOrdered ==
    (Ready /\ det.bars # <<>>) =>
        /\ C13_OrderedByCreatedTime(Blocks)
        /\ C13_OrderedByCreatedTime(returned)

\* The returned list holds two blocks of one bar and a block of a later bar
C13_Witness ==
    /\ Ready
    /\ det.bars # <<>>
    /\ \E p, q, r \in DOMAIN returned :
          /\ p < q /\ q < r
          /\ returned[p].created_time = returned[q].created_time
          /\ returned[q].created_time < returned[r].created_time

(***************************************************************************)
(* C14: max_order_blocks does not affect the result list                   *)
(***************************************************************************)
\* A fresh detector that differs from det only in max_order_blocks
C14_WithCap(max_order_blocks) ==
    NewDetector(det.swing_length, det.internal_length, det.atr_period,
                max_order_blocks)

\* high, low, start_time, created_time, pivot_time, bias and internal
C14_Fields(blocks) ==
    [i \in DOMAIN blocks |-> [blocks[i] EXCEPT !.mitigated = FALSE]]

\* C14: a detector that differs only in max_order_blocks (>= 1) and is fed
\* the same bars has a result list with the same blocks in the same order:
\* equal high, low, start_time, created_time, pivot_time, bias, internal.
C14_CapOnlyAffectsContainers ==
    Ready =>
        \A max_order_blocks \in 1..LineMaxCap :
            C14_Fields(process(C14_WithCap(max_order_blocks),
                               det.bars).detected_order_blocks)
                = C14_Fields(Blocks)

\* The cap has acted: with the other cap, a block that was dropped here
\* stayed active there and was mitigated, so the mitigated flags differ
C14_Witness ==
    /\ Ready
    /\ \E max_order_blocks \in 1..LineMaxCap :
          LET other == process(C14_WithCap(max_order_blocks), det.bars)
          IN /\ max_order_blocks # det.max_order_blocks
             /\ \E id \in DOMAIN Blocks :
                   /\ C11_DroppedByCap(id)
                   /\ other.detected_order_blocks[id].mitigated

(***************************************************************************)
(* C15: one block per bar, structure and bias                              *)
(***************************************************************************)
\* Positions of the blocks that the step appended
C15_NewBlocks == (Len(Blocks) + 1)..Len(Blocks')

C15_Step ==
    BarFed =>
        \A p, q \in C15_NewBlocks :
            (/\ Blocks'[p].internal = Blocks'[q].internal
             /\ Blocks'[p].bias = Blocks'[q].bias) => p = q

\* C15: a single bar creates at most one OrderBlock for each combination of
\* structure (swing / internal) and bias (BULLISH / BEARISH).
C15_OnePerStructureAndBias == [][C15_Step]_vars

\* One bar created two blocks (they differ in structure)
C15_Witness ==
    /\ Ready
    /\ \E p, q \in DOMAIN Blocks :
          /\ p # q
          /\ Blocks[p].created_time = Blocks[q].created_time
          /\ Blocks[p].created_time = Last(det.bars).timestamp

(***************************************************************************)
(* C16: the life of a pivot level                                          *)
(***************************************************************************)
StructureLength(s, internal) ==
    IF internal THEN s.internal_length ELSE s.swing_length

\* The leg of the structure's length goes to the given value in this step
C16_LegFlipsTo(internal, leg) ==
    /\ LegsGet(det.legs, StructureLength(det, internal)) # leg
    /\ LegsGet(det'.legs, StructureLength(det, internal)) = leg

\* The pivot is given a level in this step (its bar_index always moves)
C16_Installed(field) == C9_Assigned(det'[field]) # C9_Assigned(det[field])

\* The pivot's record after _set_pivot in this step, on the anchor bar
C16_Fresh(field, internal) ==
    /\ ~det'[field].crossed
    /\ det'[field].last_level = det[field].current_level
    /\ det'[field].bar_index
           = Len(det'.bars) - 1 - StructureLength(det, internal)
    /\ det'[field].bar_time = det'.bars[det'[field].bar_index + 1].timestamp

\* The structure has a leg of its own: with equal lengths the two structures
\* share the entry of legs and the swing call, which runs first, takes the flip
C16_OwnLeg(internal) == ~internal \/ det.internal_length # det.swing_length

C16_PivotStep(field, internal, leg, bias) ==
    \* the level changes only on a leg flip, and comes uncrossed
    /\ C16_Installed(field) =>
           C16_LegFlipsTo(internal, leg) /\ C16_Fresh(field, internal)
    \* a leg flip installs a fresh level, whatever the old one's crossed
    /\ (C16_OwnLeg(internal) /\ C16_LegFlipsTo(internal, leg)) =>
           C16_Installed(field) /\ C16_Fresh(field, internal)
    \* otherwise crossed is never reset
    /\ (~C16_Installed(field) /\ det[field].crossed) => det'[field].crossed
    \* a block of the pivot is stored only when crossed goes from false to true
    /\ \A id \in C15_NewBlocks :
           (Blocks'[id].internal = internal /\ Blocks'[id].bias = bias) =>
               /\ ~C16_Installed(field)
               /\ ~det[field].crossed
               /\ det'[field].crossed
               /\ Blocks'[id].pivot_time = det[field].bar_time

\* One block at most per level instance (structure, bias, pivot bar)
C16_OneBlockPerLevel ==
    Ready =>
        \A p, q \in DOMAIN Blocks :
            (/\ Blocks[p].internal = Blocks[q].internal
             /\ Blocks[p].bias = Blocks[q].bias
             /\ Blocks[p].pivot_time = Blocks[q].pivot_time) => p = q

C16_Step ==
    BarFed =>
        /\ C16_PivotStep("swing_high", FALSE, 0, BULLISH)
        /\ C16_PivotStep("swing_low", FALSE, 1, BEARISH)
        /\ C16_PivotStep("internal_high", TRUE, 0, BULLISH)
        /\ C16_PivotStep("internal_low", TRUE, 1, BEARISH)
        /\ C16_OneBlockPerLevel'

\* C16: a pivot goes Unset -> Set (uncrossed) -> Crossed.  Its level is
\* assigned only on a bar where the leg of its structure flips, and every
\* such flip installs a fresh level with crossed = false, whether or not the
\* old level was crossed; without a new level crossed never goes back to
\* false; a block is stored only on the step that turns crossed from false to
\* true, so a level instance yields at most one block.
C16_PivotLifecycle == [][C16_Step]_vars

C16_Pivots == {"swing_high", "swing_low", "internal_high", "internal_low"}
C16_BlocksOf(field) ==
    {id \in DOMAIN Blocks :
        /\ Blocks[id].internal = (field \in {"internal_high", "internal_low"})
        /\ Blocks[id].bias = IF field \in {"swing_high", "internal_high"}
                             THEN BULLISH ELSE BEARISH}

\* A pivot whose level was crossed and gave a block has been given a fresh
\* uncrossed level, and another pivot was given a second level although its
\* first one was never crossed
C16_Witness ==
    /\ Ready
    /\ \E f \in C16_Pivots :
          /\ det[f].last_level # None
          /\ ~det[f].crossed
          /\ \E id \in C16_BlocksOf(f) : Blocks[id].pivot_time < det[f].bar_time
    /\ \E g \in C16_Pivots :
          /\ det[g].last_level # None
          /\ C16_BlocksOf(g) = {}

(***************************************************************************)
(* C17: chunked processing                                                 *)
(***************************************************************************)
\* A fresh detector with the configuration of det
C17_Fresh == C14_WithCap(det.max_order_blocks)

\* bars[:k] and bars[k:]
C17_FirstChunk(k) == SubSeq(det.bars, 1, k)
C17_SecondChunk(k) == SubSeq(det.bars, k + 1, Len(det.bars))

C17_IsPrefixUpToFlags(first, final) ==
    /\ Len(first) <= Len(final)
    /\ C14_Fields(first) = SubSeq(C14_Fields(final), 1, Len(first))

\* C17: for every split point k, process(bars[:k]) followed by
\* process(bars[k:]) on one detector leaves the detector (result list and
\* active containers included) as one process(bars) on a fresh detector
\* does, and as the bar-by-bar calls that led here did; the list returned by
\* the first call is a prefix of the final list, up to the mitigated flags.
C17_ChunkedProcessing ==
    Ready =>
        LET whole == process(C17_Fresh, det.bars)
        IN /\ whole = det
           /\ \A k \in 0..Len(det.bars) :
                 LET first == process(C17_Fresh, C17_FirstChunk(k))
                     second == process(first, C17_SecondChunk(k))
                 IN /\ second = whole
                    /\ C17_IsPrefixUpToFlags(first.detected_order_blocks,
                                             second.detected_order_blocks)

\* A split whose first call returned a block that the second call mitigated,
\* and whose second call added a block
C17_Witness ==
    /\ Ready
    /\ \E k \in 1..(Len(det.bars) - 1) :
          LET first == process(C17_Fresh, C17_FirstChunk(k))
          IN /\ Len(first.detected_order_blocks) < Len(Blocks)
             /\ \E id \in DOMAIN first.detected_order_blocks :
                   /\ ~first.detected_order_blocks[id].mitigated
                   /\ Blocks[id].mitigated

(***************************************************************************)
(* C19: breaks of opposite directions on one bar                           *)
(***************************************************************************)
\* The bars that may come next in Spec
C19_NextBars ==
    {Bar(timestamp, hlc[1], hlc[2], hlc[3]) :
        timestamp \in NextTimestamps(det, {1}), hlc \in BarShapes(MaxPrice)}

\* The blocks that processing the bar appends
C19_BlocksOfBar(bar) ==
    LET after == _process_bar(det, bar).detected_order_blocks
    IN {after[id] : id \in (Len(Blocks) + 1)..Len(after)}

C19_Gives(bar, internal, bias) ==
    \E block \in C19_BlocksOfBar(bar) :
        block.internal = internal /\ block.bias = bias

\* C19 as stated: the two structures break independently, so when some bar
\* would give a BULLISH block for one scope and some bar a BEARISH block for
\* the other scope, a single bar gives both.
C19_OppositeBreaksOnOneBar ==
    Ready =>
        \A internal \in BOOLEAN :
            (/\ \E bar \in C19_NextBars : C19_Gives(bar, internal, BULLISH)
             /\ \E bar \in C19_NextBars : C19_Gives(bar, ~internal, BEARISH))
                => \E bar \in C19_NextBars :
                      /\ C19_Gives(bar, internal, BULLISH)
                      /\ C19_Gives(bar, ~internal, BEARISH)

\* A break of the structure fired in this step: one of its pivots is crossed
C19_BreakFired(internal) ==
    \E f \in {PivotHighField(internal), PivotLowField(internal)} :
        ~C16_Installed(f) /\ ~det[f].crossed /\ det'[f].crossed

C19_Step ==
    BarFed =>
        /\ \A p, q \in C15_NewBlocks : Blocks'[p].bias = Blocks'[q].bias
        /\ (C19_BreakFired(TRUE) /\ C19_BreakFired(FALSE)) =>
               /\ Len(Blocks') = Len(Blocks) + 2
               /\ Blocks'[Len(Blocks) + 1].internal
               /\ ~Blocks'[Len(Blocks) + 2].internal

\* C19 (amended): a single bar never triggers a bullish break on one structure
\* and a bearish break on the other; all blocks that one bar creates have the
\* same bias.  When one bar breaks both structures, both blocks are appended
\* to the result list, the internal one first.
C19_SameDirectionOnOneBar == [][C19_Step]_vars

\* The last bar broke both structures: an internal and a swing block of it
C19_Witness ==
    /\ Ready
    /\ Len(Blocks) >= 2
    /\ LET a == Blocks[Len(Blocks) - 1]
           b == Blocks[Len(Blocks)]
       IN /\ a.created_time = Last(det.bars).timestamp
          /\ b.created_time = Last(det.bars).timestamp
          /\ a.internal /\ ~b.internal
          /\ a.bias = b.bias

(***************************************************************************)
(* C20: the mitigation pass                                                *)
(***************************************************************************)
C20_Hit(bar, block) ==
    \/ block.bias = BULLISH /\ bar.low < block.low
    \/ block.bias = BEARISH /\ bar.high > block.high

\* Positions, newest first, of the blocks of the scope that the step created
RECURSIVE C20_NewestFirst(_, _)
C20_NewestFirst(ids, internal) ==
    IF ids = {} THEN <<>>
    ELSE LET newest == CHOOSE id \in ids : \A other \in ids : other <= id
             rest == C20_NewestFirst(ids \ {newest}, internal)
         IN IF Blocks'[newest].internal = internal
            THEN <<newest>> \o rest ELSE rest

\* The container when the mitigation pass starts: the blocks of this bar in
\* front of the ones it held, cut to max_order_blocks
C20_BeforePass(c) ==
    LET all == C20_NewestFirst(C15_NewBlocks, c = 1) \o Containers(det)[c]
    IN SubSeq(all, 1, Min(Len(all), det.max_order_blocks))

C20_ContainerStep(c) ==
    LET before == C20_BeforePass(c)
        bar == Last(det'.bars)
        hit(id) == C20_Hit(bar, Blocks'[id])
    IN \* the blocks that are not hit stay, in their order
       /\ Containers(det')[c] = SelectSeq(before, LAMBDA id : ~hit(id))
       \* a block of the container is flagged if and only if it is hit
       /\ \A i \in DOMAIN before : Blocks'[before[i]].mitigated = hit(before[i])

C20_Step ==
    BarFed =>
        /\ C20_ContainerStep(1)
        /\ C20_ContainerStep(2)
        \* nothing else changes in the blocks that existed
        /\ \A id \in DOMAIN Blocks :
              \/ Blocks'[id] = Blocks[id]
              \/ /\ id \in Active(det)
                 /\ C20_Hit(Last(det'.bars), Blocks[id])
                 /\ Blocks'[id] = [Blocks[id] EXCEPT !.mitigated = TRUE]

\* C20: on every bar, after the breakouts of the bar, each active container
\* is passed once: a BULLISH block is removed and flagged mitigated iff
\* bar.low < block.low, a BEARISH block iff bar.high > block.high; the other
\* blocks stay in the container in their order, their fields unchanged.
C20_MitigationPass == [][C20_Step]_vars

\* The last bar mitigated a BEARISH block of an earlier bar with its high
\* alone: its close is not above block.high.  The block is flagged and out of
\* the containers.
C20_Witness ==
    /\ Ready
    /\ \E id \in DOMAIN Blocks :
          /\ Blocks[id].bias = BEARISH
          /\ Blocks[id].created_time < Last(det.bars).timestamp
          /\ ~C20_Hit(det.bars[Len(det.bars) - 1], Blocks[id])
          /\ Last(det.bars).high > Blocks[id].high
          /\ Last(det.bars).close <= Blocks[id].high
          /\ Blocks[id].mitigated
          /\ id \notin Active(det)

(***************************************************************************)
(* C21: when a break fires and what it does                                *)
(***************************************************************************)
\* crossed of the pivot when the breakout step of this bar starts: false if
\* the structure update of the bar gave it a level
C21_CrossedBefore(field) ==
    IF C16_Installed(field) THEN FALSE ELSE det[field].crossed

\* The break condition of the bar, on the level the pivot has in this bar:
\* direction 1: prev_close <= level < close; -1: prev_close >= level > close
C21_Fires(field, bias) ==
    LET level == det'[field].current_level
        prev_close == Last(det.bars).close
        close == Last(det'.bars).close
    IN /\ level # None
       /\ ~C21_CrossedBefore(field)
       /\ IF bias = BULLISH
          THEN prev_close <= level /\ level < close
          ELSE prev_close >= level /\ level > close

C21_BlocksOfBar(internal, bias) ==
    {id \in C15_NewBlocks :
        Blocks'[id].internal = internal /\ Blocks'[id].bias = bias}

C21_PivotStep(field, internal, bias) ==
    IF C21_Fires(field, bias)
    THEN /\ det'[field].crossed
         /\ det'[TrendField(internal)].bias = bias
         /\ Cardinality(C21_BlocksOfBar(internal, bias)) = 1
    ELSE /\ det'[field].crossed = C21_CrossedBefore(field)
         /\ C21_BlocksOfBar(internal, bias) = {}

C21_StructureStep(internal) ==
    /\ C21_PivotStep(PivotHighField(internal), internal, BULLISH)
    /\ C21_PivotStep(PivotLowField(internal), internal, BEARISH)
    /\ (/\ ~C21_Fires(PivotHighField(internal), BULLISH)
        /\ ~C21_Fires(PivotLowField(internal), BEARISH))
           => det'[TrendField(internal)] = det[TrendField(internal)]

C21_Step ==
    (BarFed /\ det.bars # <<>>) =>
        C21_StructureStep(TRUE) /\ C21_StructureStep(FALSE)

\* C21: a bullish break fires on a bar exactly when the high pivot is set, not
\* crossed and prev_close <= level < close, a bearish break exactly when the
\* low pivot is set, not crossed and prev_close >= level > close.  A break
\* that fires crosses the pivot, sets the trend bias of the structure to its
\* direction and stores one block; without it crossed, the trend and the
\* blocks of the structure are as they were.
C21_BreakExactlyWhen == [][C21_Step]_vars

\* The last bar fired a bearish break from a previous close on the level
C21_Witness ==
    /\ Ready
    /\ Len(det.bars) >= 2
    /\ \E internal \in BOOLEAN, id \in DOMAIN Blocks :
          LET pivot_low == det[PivotLowField(internal)]
          IN /\ Blocks[id].internal = internal
             /\ Blocks[id].bias = BEARISH
             /\ Blocks[id].created_time = Last(det.bars).timestamp
             /\ pivot_low.crossed
             /\ det[TrendField(internal)].bias = BEARISH
             /\ det.bars[Len(det.bars) - 1].close = pivot_low.current_level
             /\ Last(det.bars).close < pivot_low.current_level

(***************************************************************************)
(* C22: the origin of a block                                              *)
(***************************************************************************)
\* The pivot that a block of the structure and bias is anchored at
C22_PivotField(internal, bias) ==
    IF bias = BULLISH THEN PivotHighField(internal)
    ELSE PivotLowField(internal)

\* Positions a..i of the bars (counted from 0) in state s
C22_Segment(s, a) == a..(Len(s.bars) - 1)

\* The value the origin search looks at, at position p (counted from 0)
C22_Reference(s, bias, p) ==
    IF bias = BULLISH THEN s.parsed_lows[p + 1] ELSE s.parsed_highs[p + 1]

\* p holds the minimum parsed_low (BULLISH) or maximum parsed_high (BEARISH)
C22_Extreme(s, bias, a, p) ==
    \A q \in C22_Segment(s, a) :
        IF bias = BULLISH
        THEN C22_Reference(s, bias, p) <= C22_Reference(s, bias, q)
        ELSE C22_Reference(s, bias, p) >= C22_Reference(s, bias, q)

\* p is the earliest position of the segment that holds the extreme
C22_Origin(s, bias, a, p) ==
    /\ p \in C22_Segment(s, a)
    /\ C22_Extreme(s, bias, a, p)
    /\ \A q \in C22_Segment(s, a) : q < p => ~C22_Extreme(s, bias, a, q)

C22_BlockFrom(s, block, a, p) ==
    /\ block.high = s.parsed_highs[p + 1]
    /\ block.low = s.parsed_lows[p + 1]
    /\ block.start_time = s.bars[p + 1].timestamp
    /\ block.created_time = Last(s.bars).timestamp
    /\ block.pivot_time = s.bars[a + 1].timestamp

C22_Step ==
    BarFed =>
        \A id \in C15_NewBlocks :
            LET block == Blocks'[id]
                a == det'[C22_PivotField(block.internal, block.bias)].bar_index
            IN /\ a # None
               /\ \E p \in C22_Segment(det', a) :
                     /\ C22_Origin(det', block.bias, a, p)
                     /\ C22_BlockFrom(det', block, a, p)

\* C22: a block created at bar i for a pivot anchored at bar a has its origin
\* at the earliest position of [a, i] that holds the minimum parsed_low
\* (BULLISH) or the maximum parsed_high (BEARISH); its high, low and start_time
\* are the parsed_high, parsed_low and timestamp of that position, its
\* created_time the timestamp of bar i, its pivot_time that of bar a.
C22_OriginIsFirstExtreme == [][C22_Step]_vars

\* The last bar created a block whose segment holds the extreme twice, with
\* different values on the other side; the block is the earlier position
C22_Witness ==
    /\ Ready
    /\ \E id \in DOMAIN Blocks :
          LET block == Blocks[id]
              a == det[C22_PivotField(block.internal, block.bias)].bar_index
          IN /\ block.created_time = Last(det.bars).timestamp
             /\ a # None
             /\ \E p, q \in C22_Segment(det, a) :
                   /\ p < q
                   /\ C22_Origin(det, block.bias, a, p)
                   /\ C22_Extreme(det, block.bias, a, q)
                   /\ C22_BlockFrom(det, block, a, p)
                   /\ det.parsed_lows[p + 1] # det.parsed_lows[q + 1]

(***************************************************************************)
(* C23: what the structure update writes                                   *)
(***************************************************************************)
\* The pivot record that a flip at the anchor bar leaves
C23_PivotAt(old, level, anchor_bar, anchor) ==
    [current_level |-> level,
     last_level |-> old.current_level,
     crossed |-> FALSE,
     bar_time |-> anchor_bar.timestamp,
     bar_index |-> anchor]

C23_Call(before, after, internal) ==
    LET N == StructureLength(before, internal)
        i == Len(before.bars) - 1
        anchor == i - N
        from == LegsGet(before.legs, N)
        to == LegsGet(after.legs, N)
        high == PivotHighField(internal)
        low == PivotLowField(internal)
    IN /\ (from = 0 /\ to = 1) =>
              /\ i >= N
              /\ after[low] = C23_PivotAt(before[low],
                                  before.bars[anchor + 1].low,
                                  before.bars[anchor + 1], anchor)
              /\ after[high] = before[high]
       /\ (from = 1 /\ to = 0) =>
              /\ i >= N
              /\ after[high] = C23_PivotAt(before[high],
                                   before.bars[anchor + 1].high,
                                   before.bars[anchor + 1], anchor)
              /\ after[low] = before[low]
       /\ from = to => after[high] = before[high] /\ after[low] = before[low]
       \* nothing but the leg and the two pivots of the structure is written
       /\ [after EXCEPT !.legs = before.legs,
                        ![high] = before[high],
                        ![low] = before[low]] = before

\* The detector before and after the two calls of _update_structure of the
\* bar that this step processes (lines 55, 57, 58)
C23_Step ==
    BarFed =>
        \A appended \in {_append_bar(det, Last(det'.bars))} :
        \A swing_updated \in
               {_update_structure(appended, det.swing_length, FALSE)} :
        \A internal_updated \in
               {_update_structure(swing_updated, det.internal_length, TRUE)} :
            /\ C23_Call(appended, swing_updated, FALSE)
            /\ C23_Call(swing_updated, internal_updated, TRUE)
            \* the step ends with the levels that the two calls left
            /\ \A f \in C16_Pivots :
                  C9_Assigned(det'[f]) = C9_Assigned(internal_updated[f])

\* C23: at bar i >= N with anchor = i - N, a call of _update_structure that
\* takes the leg from 0 to 1 sets the low pivot (last_level := the old
\* current_level, current_level := the anchor bar's low, crossed := false,
\* bar_index and bar_time := the anchor's) and leaves the high pivot as it
\* was; a call that takes it from 1 to 0 does the same to the high pivot with
\* the anchor bar's high; a call that leaves the leg writes no pivot.
C23_UpdateFrame == [][C23_Step]_vars

\* The last bar flipped the swing leg to 1 and gave the swing low pivot its
\* second level, the swing high pivot being set
C23_Witness ==
    /\ Ready
    /\ det.swing_low.last_level # None
    /\ det.swing_low.bar_index = Len(det.bars) - 1 - det.swing_length
    /\ det.swing_high.current_level # None
    /\ LegsGet(det.legs, det.swing_length) = 1

(***************************************************************************)
(* C24: a fired breakout always stores its block                           *)
(***************************************************************************)
\* The break of the pivot fired in this step: crossed went from false (as the
\* breakout step found it) to true
C24_Fired(field) == ~C21_CrossedBefore(field) /\ det'[field].crossed

C24_Bias(field) ==
    IF field \in {"swing_high", "internal_high"} THEN BULLISH ELSE BEARISH
C24_Internal(field) == field \in {"internal_high", "internal_low"}

C24_Step ==
    BarFed =>
        \A f \in C16_Pivots :
            C24_Fired(f) =>
                LET start_index == det'[f].bar_index
                    end_index == Len(det'.bars)
                IN \* none of the guards of lines 183, 188, 196/201 holds
                   /\ start_index # None
                   /\ start_index >= 0
                   /\ start_index < end_index - 1
                   /\ SubSeq(det'.parsed_lows, start_index + 1, end_index) # <<>>
                   /\ SubSeq(det'.parsed_highs, start_index + 1, end_index) # <<>>
                   \* and the block is there
                   /\ Cardinality(C21_BlocksOfBar(C24_Internal(f),
                                                  C24_Bias(f))) = 1

\* C24: when a breakout fires, the anchor index of the broken pivot is
\* strictly less than the index of the current bar, the segment from the
\* anchor to the current bar is not empty, none of the early returns of
\* _store_order_block is taken, and exactly one block is stored.
C24_FiredBreakoutStores == [][C24_Step]_vars

\* The last bar fired the break of a pivot anchored two bars back and stored
\* its block
C24_Witness ==
    /\ Ready
    /\ \E f \in C16_Pivots, id \in DOMAIN Blocks :
          /\ det[f].crossed
          /\ det[f].bar_index = Len(det.bars) - 3
          /\ Blocks[id].created_time = Last(det.bars).timestamp
          /\ Blocks[id].pivot_time = det[f].bar_time
          /\ Blocks[id].bias = C24_Bias(f)
          /\ Blocks[id].internal = C24_Internal(f)

(***************************************************************************)
(* C25: which values the structure update reads                            *)
(***************************************************************************)
\* The leg that the comparison of the anchor with the bars after it gives
\* when it is made on the parsed values (positions counted from 1)
C25_ParsedLeg(s, prev_leg, anchor) ==
    LET after == (anchor + 1)..Len(s.bars)
    IN IF \A p \in after : s.parsed_highs[anchor] > s.parsed_highs[p] THEN 0
       ELSE IF \A p \in after : s.parsed_lows[anchor] < s.parsed_lows[p] THEN 1
       ELSE prev_leg

C25_StructureStep(internal) ==
    LET N == StructureLength(det, internal)
        anchor == Len(det'.bars) - N
        high == PivotHighField(internal)
        low == PivotLowField(internal)
    IN anchor >= 1 =>
           /\ LegsGet(det'.legs, N)
                  = C25_ParsedLeg(det', LegsGet(det.legs, N), anchor)
           /\ C16_Installed(high) =>
                  det'[high].current_level = det'.parsed_highs[anchor]
           /\ C16_Installed(low) =>
                  det'[low].current_level = det'.parsed_lows[anchor]

C25_Step ==
    BarFed =>
        /\ C25_StructureStep(FALSE)
        /\ C16_OwnLeg(TRUE) => C25_StructureStep(TRUE)

\* C25: the comparison of the anchor bar with the bars after it, and the
\* level that a pivot records, are made on parsed_high / parsed_low, so a
\* high-volatility bar takes part in leg detection with its extremes swapped.
C25_StructureReadsParsed == [][C25_Step]_vars

(***************************************************************************)
(* C26: a leg of its own for each structure                                *)
(***************************************************************************)
\* C26: each structure keeps its own leg, so the swing update of a bar does
\* not take a flip away from the internal update: with swing_length =
\* internal_length the two structures see the same anchor comparison on every
\* bar and set the same pivots (level, last level, anchor time and index) on
\* the same bars.
C26_OwnLegPerStructure ==
    (Ready /\ det.swing_length = det.internal_length) =>
        /\ C9_Assigned(det.internal_low) = C9_Assigned(det.swing_low)
        /\ C9_Assigned(det.internal_high) = C9_Assigned(det.swing_high)

(***************************************************************************)
(* C27: the volatility estimate is the mean true range of the last         *)
(* min(i + 1, atr_period) bars, the current bar included                   *)
(***************************************************************************)
\* TR of the bar at position i of bars (1-based): high - low for the first
\* bar, else max(high - low, |high - prev_close|, |low - prev_close|)
C27_TrueRange(bars, i) ==
    LET high_low == bars[i].high - bars[i].low
    IN IF i = 1 THEN high_low
       ELSE Max(high_low, Max(Abs(bars[i].high - bars[i - 1].close),
                              Abs(bars[i].low - bars[i - 1].close)))

\* the true ranges of the last min(n, atr_period) bars, oldest first
C27_LastTrueRanges(s) ==
    LET n == Len(s.bars)
        m == Min(n, s.atr_period)
    IN [k \in 1..m |-> C27_TrueRange(s.bars, n - m + k)]

C27_Step ==
    BarFed =>
        LET n == Len(det'.bars)
            bar == det'.bars[n]
            window == det'.atr_window
        IN /\ window = C27_LastTrueRanges(det')
           /\ Len(window) <= det.atr_period
           /\ IF Len(det.atr_window) = det.atr_period
              THEN window = Append(Tail(det.atr_window), C27_TrueRange(det'.bars, n))
              ELSE window = Append(det.atr_window, C27_TrueRange(det'.bars, n))
           \* the estimate used for this bar is SumSeq(window) / Len(window);
           \* an estimate of 0 falls back to the bar's own range
           /\ IF IF SumSeq(window) = 0
                 THEN bar.high - bar.low >= 2 * (bar.high - bar.low)
                 ELSE (bar.high - bar.low) * Len(window) >= 2 * SumSeq(window)
              THEN det'.parsed_highs[n] = bar.low /\ det'.parsed_lows[n] = bar.high
              ELSE det'.parsed_highs[n] = bar.high /\ det'.parsed_lows[n] = bar.low

\* C27: on every bar the ATR window holds exactly the true ranges of the
\* last min(i + 1, atr_period) bars including the current one (never more
\* than atr_period values, the oldest evicted on overflow), and the bar is
\* classified against the arithmetic mean of that window.
C27_EstimateIsMeanOfLastTrueRanges == [][C27_Step]_vars

\* a full window has evicted a true range that differs from the one that
\* entered, while the bar before the last closed away from its own range
C27_Witness ==
    /\ Ready
    /\ Len(det.bars) > det.atr_period
    /\ det.atr_period = 2
    /\ C27_TrueRange(det.bars, Len(det.bars) - 2) # C27_TrueRange(det.bars, Len(det.bars))
    /\ C27_TrueRange(det.bars, Len(det.bars))
          > det.bars[Len(det.bars)].high - det.bars[Len(det.bars)].low
    /\ det.atr_window = C27_LastTrueRanges(det)

(***************************************************************************)
(* C28: the breaks of one bar all go the way the close moved               *)
(***************************************************************************)
\* the pivot was crossed by this bar
C28_Broke(field) == det'[field].crossed /\ ~C21_CrossedBefore(field)

C28_BlocksOfStructure(internal) ==
    {id \in C15_NewBlocks : Blocks'[id].internal = internal}

C28_Step ==
    (BarFed /\ det.bars # <<>>) =>
        LET prev_close == Last(det.bars).close
            close == Last(det'.bars).close
            bullish == {internal \in BOOLEAN : C28_Broke(PivotHighField(internal))}
            bearish == {internal \in BOOLEAN : C28_Broke(PivotLowField(internal))}
        IN /\ bullish # {} => close > prev_close
           /\ bearish # {} => close < prev_close
           /\ bullish = {} \/ bearish = {}
           /\ \A internal \in BOOLEAN :
                 /\ Cardinality(C28_BlocksOfStructure(internal)) <= 1
                 /\ C28_BlocksOfStructure(internal) # {} =>
                        internal \in bullish \cup bearish
           /\ Cardinality(C15_NewBlocks) <= 2
           /\ \A id \in C15_NewBlocks :
                 Blocks'[id].bias = (IF close > prev_close THEN BULLISH ELSE BEARISH)

\* C28: a bullish break happens only on a bar that closes above the previous
\* close and a bearish break only on one that closes below it, so the bar
\* never breaks a high pivot and a low pivot (of the same structure or of the
\* two structures); it creates at most one block per structure, at most two
\* in total, and their bias is the direction of the close.
C28_BreaksFollowTheClose == [][C28_Step]_vars

\* the last bar closed below the previous close and broke the low pivots of
\* both structures: two BEARISH blocks of it, none BULLISH
C28_Witness ==
    /\ Ready
    /\ Len(det.bars) >= 2
    /\ Last(det.bars).close < det.bars[Len(det.bars) - 1].close
    /\ det.swing_low.crossed /\ det.internal_low.crossed
    /\ Cardinality({id \in DOMAIN Blocks :
                       /\ Blocks[id].created_time = Last(det.bars).timestamp
                       /\ Blocks[id].bias = BEARISH}) = 2

(***************************************************************************)
(* C29: the origin bar lies between the pivot's anchor bar and the         *)
(* breakout bar                                                            *)
(***************************************************************************)
\* C29: with strictly increasing timestamps every emitted block has
\* pivot_time <= start_time <= created_time, its three times being those of
\* an anchor bar a, an origin bar p and a breakout bar i with a <= p <= i.
C29_OriginInsideSegment ==
    (Ready /\ StrictlyIncreasingTimestamps(det.bars)) =>
        \A id \in DOMAIN Blocks :
            /\ Blocks[id].pivot_time <= Blocks[id].start_time
            /\ Blocks[id].start_time <= Blocks[id].created_time
            /\ \E a, p, i \in DOMAIN det.bars :
                  /\ a <= p /\ p <= i
                  /\ det.bars[a].timestamp = Blocks[id].pivot_time
                  /\ det.bars[p].timestamp = Blocks[id].start_time
                  /\ det.bars[i].timestamp = Blocks[id].created_time

\* a block whose origin is its breakout bar, later than the pivot's anchor,
\* while a bar older than the anchor holds a parsed high as high as the origin's
C29_Witness ==
    /\ Ready
    /\ StrictlyIncreasingTimestamps(det.bars)
    /\ \E id \in DOMAIN Blocks :
          /\ Blocks[id].bias = BEARISH
          /\ Blocks[id].pivot_time < Blocks[id].start_time
          /\ Blocks[id].start_time = Blocks[id].created_time
          /\ \E b \in DOMAIN det.bars :
                /\ det.bars[b].timestamp < Blocks[id].pivot_time
                /\ det.parsed_highs[b] >= Blocks[id].high

(***************************************************************************)
(* C30: the pivot assignments of a structure alternate low, high, low, ... *)
(***************************************************************************)
\* the leg recorded for a lookback length, 0 before the first record
C30_Leg(s, size) == IF size \in DOMAIN s.legs THEN s.legs[size] ELSE 0

C30_Set(pivot) == pivot.current_level # None

\* high, low and close of every bar below those of the bar before it
C30_StrictlyFalling(bars) ==
    \A i \in 2..Len(bars) :
        /\ bars[i].high < bars[i - 1].high
        /\ bars[i].low < bars[i - 1].low
        /\ bars[i].close < bars[i - 1].close

\* The leg of the structure is the number of its low-pivot assignments minus
\* the number of its high-pivot assignments: a low assignment takes it from 0
\* to 1, a high assignment from 1 to 0, and nothing else changes it.
C30_StructureStep(internal) ==
    LET size == StructureLength(det, internal)
        low == C16_Installed(PivotLowField(internal))
        high == C16_Installed(PivotHighField(internal))
        pivot_low == det'[PivotLowField(internal)]
        pivot_high == det'[PivotHighField(internal)]
    IN IF C16_OwnLeg(internal)
       THEN /\ ~(low /\ high)
            /\ low => C30_Leg(det, size) = 0 /\ C30_Leg(det', size) = 1
            /\ high => C30_Leg(det, size) = 1 /\ C30_Leg(det', size) = 0
            /\ (~low /\ ~high) => C30_Leg(det', size) = C30_Leg(det, size)
            /\ C30_Leg(det', size) \in {0, 1}
            \* the high pivot is never set before the low pivot
            /\ C30_Set(pivot_high) => C30_Set(pivot_low)
            /\ C30_Leg(det', size) = 1 => C30_Set(pivot_low)
            \* the pivot assigned last is the low one exactly when the leg is 1
            /\ (C30_Set(pivot_low) /\ C30_Set(pivot_high)) =>
                   (C30_Leg(det', size) = 1
                       <=> pivot_low.bar_index > pivot_high.bar_index)
            /\ (C30_Set(pivot_low) /\ ~C30_Set(pivot_high)) =>
                   C30_Leg(det', size) = 1
       ELSE \* the entry of legs is the swing structure's
            ~low /\ ~high

C30_Step ==
    BarFed =>
        /\ C30_StructureStep(FALSE)
        /\ C30_StructureStep(TRUE)
        /\ C30_StrictlyFalling(det'.bars) =>
               /\ \A field \in C16_Pivots : ~C30_Set(det'[field])
               /\ \A size \in DOMAIN det'.legs : det'.legs[size] = 0
               /\ Blocks' = <<>>

\* C30: the leg of a structure starts at 0, so its pivot assignments alternate
\* low, high, low, high, ... starting with the low pivot: the high pivot is
\* never set before the low pivot, the number of low assignments minus the
\* number of high assignments (the leg) is always 0 or 1, and a strictly
\* falling feed sets no pivot and produces no block.
C30_PivotsAlternate == [][C30_Step]_vars

\* the swing low pivot was assigned, then the high pivot, then the low pivot
\* a second time
C30_Witness ==
    /\ Ready
    /\ C30_Set(det.swing_low) /\ C30_Set(det.swing_high)
    /\ det.swing_low.last_level # None
    /\ det.swing_low.bar_index > det.swing_high.bar_index
    /\ det.swing_high.last_level = None
    /\ C30_Leg(det, det.swing_length) = 1

(***************************************************************************)
(* C31: no breakout on the bar that assigns the pivot                      *)
(***************************************************************************)
\* Position (counted from 0) of the bar with the given timestamp
C31_IndexOfTime(s, timestamp) ==
    CHOOSE i \in 0..(Len(s.bars) - 1) : s.bars[i + 1].timestamp = timestamp

\* every block lies at least N + 1 bars after the anchor of its pivot
C31_BlocksAfterAssignment(s) ==
    \A id \in DOMAIN s.detected_order_blocks :
        LET block == s.detected_order_blocks[id]
            N == StructureLength(s, block.internal)
            a == C31_IndexOfTime(s, block.pivot_time)
            i == C31_IndexOfTime(s, block.created_time)
        IN /\ i >= a + N + 1
           \* the search segment a..i
           /\ i - a + 1 >= N + 2

C31_Step ==
    BarFed =>
        /\ \A internal \in BOOLEAN : \A bias \in {BULLISH, BEARISH} :
              C16_Installed(C22_PivotField(internal, bias)) =>
                  /\ ~det'[C22_PivotField(internal, bias)].crossed
                  /\ C21_BlocksOfBar(internal, bias) = {}
        /\ \A id \in C15_NewBlocks :
              LET pivot == det'[C22_PivotField(Blocks'[id].internal, Blocks'[id].bias)]
              IN /\ pivot.bar_time = Blocks'[id].pivot_time
                 /\ Len(det'.bars) - 1
                       >= pivot.bar_index + StructureLength(det, Blocks'[id].internal) + 1
        /\ C31_BlocksAfterAssignment(det')

\* C31: with low <= close <= high a breakout never fires on the bar that
\* assigns its pivot: the bar leaves the pivot it assigns uncrossed and stores
\* no block of it, and every block of a structure of length N is created at a
\* bar index >= anchor index + N + 1, its segment holding at least N + 2 bars.
C31_NoBreakOnAssignmentBar == [][C31_Step]_vars

\* a block created on the bar right after the one that assigned its pivot
C31_Witness ==
    /\ Ready
    /\ \E id \in DOMAIN Blocks :
          /\ Blocks[id].created_time = Last(det.bars).timestamp
          /\ C31_IndexOfTime(det, Blocks[id].created_time)
                = C31_IndexOfTime(det, Blocks[id].pivot_time)
                      + StructureLength(det, Blocks[id].internal) + 1

(***************************************************************************)
(* C32: an active block has not been pierced since its creation bar        *)
(***************************************************************************)
\* the bars processed from the creation bar of the block up to the last bar
C32_BarsSinceCreation(s, block) ==
    {j \in DOMAIN s.bars : j >= C31_IndexOfTime(s, block.created_time) + 1}

\* C32: after every bar step, each BULLISH block still in an active container
\* has block.low <= low of every bar from its creation bar up to the current
\* bar, and each BEARISH one has block.high >= high of every such bar.
C32_ActiveBlocksUnpierced ==
    Ready =>
        \A id \in Active(det) :
            \A j \in C32_BarsSinceCreation(det, Blocks[id]) :
                IF Blocks[id].bias = BULLISH
                THEN Blocks[id].low <= det.bars[j].low
                ELSE Blocks[id].high >= det.bars[j].high

\* a BEARISH block is still active after a later bar whose high reached
\* block.high exactly
C32_Witness ==
    /\ Ready
    /\ \E id \in Active(det) :
          /\ Blocks[id].bias = BEARISH
          /\ Blocks[id].created_time < Last(det.bars).timestamp
          /\ Last(det.bars).high = Blocks[id].high
          /\ ~Blocks[id].mitigated

(***************************************************************************)
(* C33: a block survives the mitigation pass of its own bar unless the bar *)
(* is high-volatility                                                      *)
(***************************************************************************)
\* the classification of the bar just appended, against the window that
\* holds its own true range
C33_LastBarHighVolatility(s) ==
    high_volatility(Last(s.bars), _average(s.atr_window))

C33_Step ==
    (BarFed /\ det.max_order_blocks >= 1 /\ ~C33_LastBarHighVolatility(det')) =>
        \A id \in C15_NewBlocks :
            /\ ~Blocks'[id].mitigated
            /\ det'[ContainerField(Blocks'[id].internal)] # <<>>
            /\ det'[ContainerField(Blocks'[id].internal)][1] = id
            /\ ~C20_Hit(Last(det'.bars), Blocks'[id])

\* C33: when the breakout bar is not classified high-volatility and
\* max_order_blocks >= 1, the block created on it is at the head of its active
\* container with mitigated = false at the end of the bar step.
C33_NewBlockSurvivesItsBar == [][C33_Step]_vars

\* the last bar, not high-volatility and of positive range, created a BEARISH
\* block whose high is the bar's own high, and the block is active
C33_Witness ==
    /\ Ready
    /\ Len(det.bars) >= 2
    /\ ~C33_LastBarHighVolatility(det)
    /\ Last(det.bars).high > Last(det.bars).low
    /\ \E id \in Active(det) :
          /\ Blocks[id].created_time = Last(det.bars).timestamp
          /\ Blocks[id].bias = BEARISH
          /\ Blocks[id].high = Last(det.bars).high
          /\ ~Blocks[id].mitigated

(***************************************************************************)
(* C34: a block dropped by the cap is never flagged                        *)
(***************************************************************************)
C34_ContainerOf(block) == IF block.internal THEN 1 ELSE 2

\* the blocks that the mitigation pass of this step examines
C34_Examined ==
    UNION {{C20_BeforePass(c)[k] : k \in 1..Len(C20_BeforePass(c))} : c \in 1..2}

C34_Step ==
    BarFed =>
        \* a block outside the containers is left as it is and stays outside
        /\ \A id \in DOMAIN Blocks :
              id \notin Active(det) =>
                  Blocks'[id] = Blocks[id] /\ id \notin Active(det')
        \* a block that the cap drops in this step is not examined
        /\ \A id \in DOMAIN Blocks' :
              id \notin C34_Examined =>
                  /\ id \notin Active(det')
                  /\ id \in DOMAIN Blocks => Blocks'[id] = Blocks[id]
        \* the flag is set only by the pass, on a block it takes out
        /\ \A id \in DOMAIN Blocks' :
              (/\ Blocks'[id].mitigated
               /\ id \in DOMAIN Blocks => ~Blocks[id].mitigated) =>
                  /\ id \in C34_Examined
                  /\ id \notin Active(det')
                  /\ C20_Hit(Last(det'.bars), Blocks'[id])
        \* out of the containers and unflagged: dropped by the cap, while the
        \* container of the block is full of newer blocks
        /\ \A id \in DOMAIN Blocks' :
              (~Blocks'[id].mitigated /\ id \notin Active(det')) =>
                  /\ id \notin C34_Examined
                  /\ Len(C20_BeforePass(C34_ContainerOf(Blocks'[id])))
                         = det.max_order_blocks

\* C34: a block that the cap dropped from its container is never examined
\* again, its mitigated flag stays false whatever later bars do; mitigated =
\* true holds for a block only if the mitigation pass removed it from an
\* active container.
C34_DroppedNeverMitigated == [][C34_Step]_vars

\* a block dropped by the cap is pierced by the last bar and still unflagged
C34_Witness ==
    /\ Ready
    /\ \E id \in DOMAIN Blocks :
          /\ C11_DroppedByCap(id)
          /\ Blocks[id].created_time < Last(det.bars).timestamp
          /\ C20_Hit(Last(det.bars), Blocks[id])

(***************************************************************************)
(* The Candle-based detector (src/stock_ob_detector/detector.py)           *)
(*                                                                         *)
(* The detector keeps no leg: a pivot is assigned on every candle whose    *)
(* anchor passes the test.  Its Pivot and Trend are the records of         *)
(* models.py above; its OrderBlock holds the fields that                   *)
(* _store_order_block passes.  The state is that of one call of process on *)
(* a new detector, one step for each candle of the loop.                   *)
(***************************************************************************)
CandleMaxPrice == 2
CandleMaxCandles == 5
CandleMaxLen == 2

\* _AtrCalculator(period = 200)
AtrPeriod == 200

\* a float kept as the fraction num / den; den = 0 is None
Fraction(num, den) == [num |-> num, den |-> den]
NoValue == Fraction(0, 0)

AtrCalculator ==
    [period |-> AtrPeriod, _value |-> NoValue, _prev_close |-> None,
     _buffer |-> <<>>]

\* _AtrCalculator.update: the calculator after the call and the value returned
AtrCalculator_update(atr, high, low, close) ==
    LET true_range ==
            IF atr._prev_close = None THEN high - low
            ELSE Max(high - low, Max(Abs(high - atr._prev_close),
                                     Abs(low - atr._prev_close)))
    IN IF atr._value = NoValue
       THEN LET buffer == Append(atr._buffer, true_range)
            IN IF Len(buffer) < atr.period
               THEN [calculator |-> [atr EXCEPT !._buffer = buffer,
                                                !._prev_close = close],
                     value |-> Fraction(SumSeq(buffer), Len(buffer))]
               ELSE LET value ==
                            Fraction(SumSeq(SubSeq(buffer,
                                                   Len(buffer) - atr.period + 1,
                                                   Len(buffer))),
                                     atr.period)
                    IN [calculator |-> [atr EXCEPT !._buffer = buffer,
                                                   !._value = value,
                                                   !._prev_close = close],
                        value |-> value]
       ELSE LET value ==
                    Fraction(atr._value.num * (atr.period - 1)
                                 + true_range * atr._value.den,
                             atr._value.den * atr.period)
            IN [calculator |-> [atr EXCEPT !._value = value,
                                           !._prev_close = close],
                value |-> value]

Candle(time, high, low, close) ==
    [time |-> time, high |-> high, low |-> low, close |-> close]

_ParsedBar(parsed_high, parsed_low, atr) ==
    [parsed_high |-> parsed_high, parsed_low |-> parsed_low, atr |-> atr]

CandleOrderBlock(high, low, time, bias, internal, detected_at, detected_index) ==
    [high |-> high, low |-> low, time |-> time, bias |-> bias,
     internal |-> internal, detected_at |-> detected_at,
     detected_index |-> detected_index]

CandleDetector(swing_length, internal_length) ==
    [swing_length |-> swing_length,
     internal_length |-> internal_length,
     _swing_high |-> Pivot,
     _swing_low |-> Pivot,
     _internal_high |-> Pivot,
     _internal_low |-> Pivot,
     _swing_trend |-> Trend,
     _internal_trend |-> Trend,
     _parsed_bars |-> <<>>,
     _highs |-> <<>>,
     _lows |-> <<>>,
     _closes |-> <<>>,
     _times |-> <<>>,
     _order_blocks |-> <<>>,
     _atr |-> AtrCalculator]

CandleHighField(internal) == IF internal THEN "_internal_high" ELSE "_swing_high"
CandleLowField(internal) == IF internal THEN "_internal_low" ELSE "_swing_low"
CandleTrendField(internal) == IF internal THEN "_internal_trend" ELSE "_swing_trend"

\* _assign_pivot; index counts from 0
_assign_pivot(s, pivot, level, index) ==
    [current_level |-> level,
     last_level |-> pivot.current_level,
     crossed |-> FALSE,
     bar_time |-> s._times[index + 1],
     bar_index |-> index]

\* _update_structure of the Candle-based detector: the low test comes first
Candle_update_structure(s, size, internal, index) ==
    IF index < size THEN s
    ELSE
    LET lookback_index == index - size
        highest_since == MaxOf(SubSeq(s._highs, lookback_index + 2, index + 1))
        lowest_since == MinOf(SubSeq(s._lows, lookback_index + 2, index + 1))
    IN IF s._lows[lookback_index + 1] < lowest_since
       THEN [s EXCEPT ![CandleLowField(internal)] =
                _assign_pivot(s, @, s._lows[lookback_index + 1], lookback_index)]
       ELSE IF s._highs[lookback_index + 1] > highest_since
       THEN [s EXCEPT ![CandleHighField(internal)] =
                _assign_pivot(s, @, s._highs[lookback_index + 1], lookback_index)]
       ELSE s

\* max(range(len(values)), key=values.__getitem__): the first position
\* (from 0) of the greatest value; min(...) likewise
FirstArgMax(values) == IndexOf(values, MaxOf(values))
FirstArgMin(values) == IndexOf(values, MinOf(values))

\* _store_order_block of the Candle-based detector: the origin is searched
\* in the raw highs / lows
Candle_store_order_block(s, pivot, bias, index, internal) ==
    IF pivot.bar_index = None THEN s
    ELSE
    LET start == pivot.bar_index
        end == index + 1
        parsed_segment == SubSeq(s._parsed_bars, start + 1, end)
    IN
    IF parsed_segment = <<>> THEN s
    ELSE
    LET relative_index ==
            IF bias = BEARISH
            THEN FirstArgMax(SubSeq(s._highs, start + 1, end))
            ELSE FirstArgMin(SubSeq(s._lows, start + 1, end))
        absolute_index == start + relative_index
        order_block ==
            CandleOrderBlock(s._highs[absolute_index + 1],
                             s._lows[absolute_index + 1],
                             s._times[absolute_index + 1],
                             bias, internal, s._times[index + 1], index)
    IN [s EXCEPT !._order_blocks = Append(@, order_block)]

\* the internal level is never compared with the swing level
OtherPivotSameLevel_never(s, internal, pivot, other_field) == FALSE

\* other_pivot and other_pivot.current_level == pivot.current_level, where
\* other_pivot is the swing pivot for the internal structure and None for the
\* swing structure (a Pivot instance is always truthy)
OtherPivotSameLevel(s, internal, pivot, other_field) ==
    internal /\ s[other_field].current_level = pivot.current_level

_maybe_store_bullish_order_block(s, index, internal) ==
    LET pivot == s[CandleHighField(internal)]
    IN
    IF pivot.current_level = None \/ pivot.bar_index = None THEN s
    ELSE IF OtherPivotSameLevel(s, internal, pivot, CandleHighField(FALSE)) THEN s
    ELSE IF index <= 0 THEN s
    ELSE
    LET prev_close == s._closes[index]
        current_close == s._closes[index + 1]
        level == pivot.current_level
        crossed == prev_close <= level /\ level < current_close
    IN IF crossed /\ ~pivot.crossed
       THEN LET t == [s EXCEPT ![CandleTrendField(internal)].bias = BULLISH,
                               ![CandleHighField(internal)].crossed = TRUE]
            IN Candle_store_order_block(t, t[CandleHighField(internal)],
                                        BULLISH, index, internal)
       ELSE s

_maybe_store_bearish_order_block(s, index, internal) ==
    LET pivot == s[CandleLowField(internal)]
    IN
    IF pivot.current_level = None \/ pivot.bar_index = None THEN s
    ELSE IF OtherPivotSameLevel(s, internal, pivot, CandleLowField(FALSE)) THEN s
    ELSE IF index <= 0 THEN s
    ELSE
    LET prev_close == s._closes[index]
        current_close == s._closes[index + 1]
        level == pivot.current_level
        crossed == prev_close >= level /\ level > current_close
    IN IF crossed /\ ~pivot.crossed
       THEN LET t == [s EXCEPT ![CandleTrendField(internal)].bias = BEARISH,
                               ![CandleLowField(internal)].crossed = TRUE]
            IN Candle_store_order_block(t, t[CandleLowField(internal)],
                                        BEARISH, index, internal)
       ELSE s

Candle_display_structure(s, index, internal) ==
    _maybe_store_bearish_order_block(
        _maybe_store_bullish_order_block(s, index, internal), index, internal)

\* The body of the loop of process for the candle that enumerate numbers index
Candle_process_candle(s, index, candle) ==
    LET updated == AtrCalculator_update(s._atr, candle.high, candle.low,
                                        candle.close)
        atr == updated.value
        high_low_range == candle.high - candle.low
        \* high_volatility
        candle_high_volatility ==
            atr.num > 0 /\ high_low_range * atr.den >= 2 * atr.num
        parsed_high == IF candle_high_volatility THEN candle.low ELSE candle.high
        parsed_low == IF candle_high_volatility THEN candle.high ELSE candle.low
        s1 == [s EXCEPT !._atr = updated.calculator,
                        !._parsed_bars =
                            Append(@, _ParsedBar(parsed_high, parsed_low, atr)),
                        !._highs = Append(@, candle.high),
                        !._lows = Append(@, candle.low),
                        !._closes = Append(@, candle.close),
                        !._times = Append(@, candle.time)]
        s2 == Candle_update_structure(s1, s1.swing_length, FALSE, index)
        s3 == Candle_update_structure(s2, s2.internal_length, TRUE, index)
        s4 == Candle_display_structure(s3, index, TRUE)
    IN Candle_display_structure(s4, index, FALSE)

\* OrderBlockDetector(swing_length, internal_length) followed by the call
\* process(candles), which is about to start its loop
CandleInit ==
    /\ pc = "in_process"
    /\ returned = NoResult
    /\ \E swing_length \in 1..CandleMaxLen, internal_length \in 1..CandleMaxLen :
          det = CandleDetector(swing_length, internal_length)

\* One turn of the loop: the next candle of the feed, numbered by the count
\* of the candles this call has taken
CandleLoop(shapes, max_candles) ==
    /\ pc = "in_process"
    /\ Len(det._highs) < max_candles
    /\ \E hlc \in shapes :
          det' = Candle_process_candle(
                     det, Len(det._highs),
                     Candle(Len(det._highs) + 1, hlc[1], hlc[2], hlc[3]))
    /\ UNCHANGED <<pc, returned>>

\* The feed is exhausted: return list(self._order_blocks)
CandleReturn ==
    /\ pc = "in_process"
    /\ pc' = "returned"
    /\ returned' = det._order_blocks
    /\ UNCHANGED det

CandleNext ==
    \/ CandleLoop(BarShapes(CandleMaxPrice), CandleMaxCandles)
    \/ CandleReturn

SpecCandle == CandleInit /\ [][CandleNext]_vars

\* SpecCandleLine: candles with high = low = close, a longer feed
CandleLineMaxPrice == 2
CandleLineMaxCandles == 7

CandleLineNext ==
    \/ CandleLoop(CloseOnly(CandleLineMaxPrice), CandleLineMaxCandles)
    \/ CandleReturn

SpecCandleLine == CandleInit /\ [][CandleLineNext]_vars

CandleFed == pc = "in_process" /\ det'._highs # det._highs

(***************************************************************************)
(* C35: the tie-break of the Candle-based detector                         *)
(***************************************************************************)
CandleLength(s, internal) ==
    IF internal THEN s.internal_length ELSE s.swing_length

\* The anchor of the candle just taken exceeds the window both ways
C35_AnchorExceedsBothWays(internal) ==
    LET index == Len(det'._highs) - 1
        lookback_index == index - CandleLength(det, internal)
    IN /\ lookback_index >= 0
       /\ \A k \in (lookback_index + 2)..(index + 1) :
             /\ det'._highs[lookback_index + 1] > det'._highs[k]
             /\ det'._lows[lookback_index + 1] < det'._lows[k]

C35_Step ==
    CandleFed =>
        \A internal \in BOOLEAN :
            C35_AnchorExceedsBothWays(internal) =>
                LET lookback_index ==
                        Len(det'._highs) - 1 - CandleLength(det, internal)
                    pivot_high == det'[CandleHighField(internal)]
                IN /\ pivot_high.bar_index = lookback_index
                   /\ pivot_high.current_level = det'._highs[lookback_index + 1]
                   /\ C9_Assigned(det'[CandleLowField(internal)])
                          = C9_Assigned(det[CandleLowField(internal)])

\* C35: in the Candle-based detector, when the anchor's high exceeds the
\* highest high of the following window and its low is below the lowest low,
\* the high pivot is assigned (the bearish candidate wins) and the low pivot
\* is left as it was.
C35_BearishCandidateWins == [][C35_Step]_vars

(***************************************************************************)
(* C36: an internal breakout is suppressed while the internal level equals *)
(* the swing level                                                         *)
(***************************************************************************)
C36_NewBlocks(internal, bias) ==
    {id \in (Len(det._order_blocks) + 1)..Len(det'._order_blocks) :
        /\ det'._order_blocks[id].internal = internal
        /\ det'._order_blocks[id].bias = bias}

\* The closes of the last two candles cross the level in the direction of bias
C36_Crosses(closes, level, bias) ==
    LET prev_close == closes[Len(closes) - 1]
        current_close == closes[Len(closes)]
    IN IF bias = BULLISH
       THEN prev_close <= level /\ level < current_close
       ELSE prev_close >= level /\ level > current_close

C36_PivotStep(internal, bias) ==
    LET field == IF bias = BULLISH THEN CandleHighField(internal)
                 ELSE CandleLowField(internal)
        other == IF bias = BULLISH THEN CandleHighField(FALSE)
                 ELSE CandleLowField(FALSE)
        level == det'[field].current_level
        fires == /\ level # None
                 /\ ~C21_CrossedBefore(field)
                 /\ C36_Crosses(det'._closes, level, bias)
        suppressed == internal /\ det'[other].current_level = level
    IN IF fires /\ ~suppressed
       THEN /\ det'[field].crossed
            /\ Cardinality(C36_NewBlocks(internal, bias)) = 1
            /\ \A id \in C36_NewBlocks(internal, bias) :
                  det'._order_blocks[id].detected_index = Len(det'._closes) - 1
       ELSE /\ det'[field].crossed = C21_CrossedBefore(field)
            /\ C36_NewBlocks(internal, bias) = {}

C36_Step ==
    (CandleFed /\ det._closes # <<>>) =>
        /\ \A internal \in BOOLEAN : \A bias \in {BULLISH, BEARISH} :
              C36_PivotStep(internal, bias)
        /\ \A id \in DOMAIN det._order_blocks :
              det'._order_blocks[id] = det._order_blocks[id]

\* C36: in the Candle-based detector a breakout of an internal pivot whose
\* level equals the level of the corresponding swing pivot is suppressed: no
\* internal block is stored and the pivot is not marked crossed, so the level
\* can still give a block on a later candle; otherwise an internal breakout,
\* and in every case a swing breakout, fires exactly when the uncrossed level
\* is crossed by the closes.
C36_InternalSuppressedOnEqualLevels == [][C36_Step]_vars

\* the internal low pivot gave a block on the last candle, although the
\* closes of an earlier candle had already crossed its level after the pivot
\* was assigned
C36_Witness ==
    /\ pc = "in_process"
    /\ \E id \in DOMAIN det._order_blocks : \E bias \in {BULLISH, BEARISH} :
          LET block == det._order_blocks[id]
              pivot == det[IF bias = BULLISH THEN CandleHighField(TRUE)
                           ELSE CandleLowField(TRUE)]
          IN /\ block.internal
             /\ block.bias = bias
             /\ block.detected_index = Len(det._closes) - 1
             /\ pivot.crossed
             /\ \E j \in (pivot.bar_index + det.internal_length + 1)
                             ..(Len(det._closes) - 1) :
                   C36_Crosses(SubSeq(det._closes, 1, j), pivot.current_level, bias)

====
